---- MODULE Spec2Model ----
(***************************************************************************)
(* SlideNode document pipeline: PipelineService.run (pipeline.py), the     *)
(* worker task process_document (tasks.py), the LLM gateway (llm.py) and   *)
(* the PDF parser's result (pdf_parser.py), over the relational store of   *)
(* entities.py.                                                            *)
(*                                                                         *)
(* One document and its one job.  Every action ends at a commit of the     *)
(* database session, so every state of the model is a committed state.     *)
(* Progress is kept in hundredths (0.05 is 5, 1.0 is 100).  Strings that   *)
(* only label things (headings, prompts) are left out; an error message is *)
(* the sequence of its parts, its first part being the prefix that the     *)
(* handler of run looks at.  Row ids (uuid4 in the code) are tuples naming *)
(* the run and the position that created the row: fresh and unique.        *)
(***************************************************************************)
EXTENDS Integers, Sequences, FiniteSets, TLC

\* ---- bounds of the model ----
MaxRuns == 2
MaxChunks == 2
MaxImages == 1
MaxStmt == 2
MaxSubsections == 2
MaxPoolImages == 2
MaxDedupeStmt == 4
MaxDedupeFacts == 3
MaxMockFacts == 121
MaxParagraphs == 3
MaxPayloadItems == 9

\* ---- program constants ----
MaxPages == 200
LLMMaxRetries == 2
DedupeThresholdPct == 86
QualityCoverageThresholdPct == 85
MaxFactsPerCall == 8
OutlineMaxSections == 15
OutlineMaxSubsections == 5
AnnotationTries == 1
SnippetMaxLen == 180
SnippetStep == 40
KeywordMinLen == 3
BoundaryLimit == 20
MockGroupSize == 4
ChunkSizeTokens == 1200
ChunkIdWidth == 4
StatementMinLen == 8
StatementMaxLen == 400

NoneVal == "None"
NoInt == 0 - 1
NoMsg == <<>>
NoMetrics == [coverage_ratio |-> NoInt, citation_completeness |-> NoInt, dedupe_ratio |-> NoInt]
DocId == "D"

VARIABLES
    scope,        \* which inputs vary: "facts" (one run, the extraction answers), "outline"
                  \* (one run, the outline and annotation answers), "rerun" (MaxRuns runs),
                  \* "images" (one run, up to MaxPoolImages images), "dedupe" (one run, one
                  \* chunk with up to MaxDedupeFacts facts over MaxDedupeStmt statements),
                  \* "snippet" (one run, one chunk whose text varies), "unit" (no run:
                  \* one function of the parser or of the gateway, called on its own)
    pdf,          \* the document's stored file (the bytes read_file_bytes returns)
    job, doc,     \* the Job row and the Document row
    sections, subsections, bullets, spans, cits, docImages,   \* tables
    blobs,        \* storage keys of the images uploaded so far
    runs,         \* number of times process_document was invoked
    pc,           \* position of the orchestrator thread
    chunks, images,               \* parse_pdf_bytes' result
    imgResults,                   \* _process_images: results, by image
    doc_images,                   \* _process_images' return value
    futures, completed, collected,\* extraction pool: result by chunk, completion order, number consumed
    facts, errors,                \* run's locals
    raised,                       \* the exception on its way out of the with block
    merged_facts, outline, annotations,
    tally,                        \* all_bullets, cited_bullets, used_fact_ids of stage S8
    llmIssued,                    \* an LLM request was issued during the current run
    invoked,                      \* a function called on its own: its name, arguments, whether
                                  \* it returned or raised, and what
    gateway                       \* what the gateway logged during the current run: the attempts
                                  \* that build_outline and write_annotations made when they gave
                                  \* up (0 while they have not), the exception write_annotations caught

dbVars == <<job, doc, sections, subsections, bullets, spans, cits, docImages>>
deckVars == <<sections, subsections, bullets, spans, cits>>
imgVars == <<images, imgResults, doc_images>>
poolVars == <<futures, completed, collected, facts, errors, raised>>
lateVars == <<merged_facts, outline, annotations, tally>>
vars == <<scope, pdf, job, doc, sections, subsections, bullets, spans, cits, docImages,
          blobs, runs, pc, chunks, images, imgResults, doc_images, futures, completed,
          collected, facts, errors, raised, merged_facts, outline, annotations, tally, llmIssued, gateway,
          invoked>>

\* ---- small helpers ----
Min(a, b) == IF a < b THEN a ELSE b
Max(a, b) == IF a > b THEN a ELSE b
Range(s) == {s[i] : i \in 1..Len(s)}

RECURSIVE SortedSeq(_)
SortedSeq(S) ==
    IF S = {} THEN <<>>
    ELSE LET m == CHOOSE x \in S : \A y \in S : x <= y
         IN <<m>> \o SortedSeq(S \ {m})

\* ---- text: a string is the sequence of its characters ----
Rep(ch, n) == [i \in 1..n |-> ch]
\* n characters of words of nine letters ch, a blank after each.
Spaced(ch, n) == [i \in 1..n |-> IF i % 10 = 0 THEN " " ELSE ch]
Whitespace == {" ", "\n"}
Lower(s) == [i \in 1..Len(s) |-> IF s[i] = "A" THEN "a" ELSE IF s[i] = "B" THEN "b" ELSE s[i]]
\* s[a:b] for 0 <= a.
Slice(s, a, b) == SubSeq(s, a + 1, Min(b, Len(s)))
\* needle in hay
Contains(hay, needle) ==
    \E i \in 0..(Len(hay) - Len(needle)) : SubSeq(hay, i + 1, i + Len(needle)) = needle
\* s.find(ch): the first index (from 0), -1 if none.
Find(s, ch) ==
    LET at == {i \in 1..Len(s) : s[i] = ch}
    IN IF at = {} THEN 0 - 1 ELSE (CHOOSE i \in at : \A j \in at : i <= j) - 1
\* s.strip()
Strip(s) ==
    LET ink == {i \in 1..Len(s) : s[i] \notin Whitespace}
    IN IF ink = {} THEN <<>>
       ELSE SubSeq(s, CHOOSE i \in ink : \A j \in ink : i <= j, CHOOSE i \in ink : \A j \in ink : j <= i)
\* set(s.split())
Words(s) ==
    {SubSeq(s, i, j) : <<i, j>> \in {w \in (1..Len(s)) \X (1..Len(s)) :
        /\ w[1] <= w[2]
        /\ \A k \in w[1]..w[2] : s[k] \notin Whitespace
        /\ (w[1] = 1 \/ s[w[1] - 1] \in Whitespace)
        /\ (w[2] = Len(s) \/ s[w[2] + 1] \in Whitespace)}}

RECURSIVE Concat(_)
Concat(ss) == IF ss = <<>> THEN <<>> ELSE Head(ss) \o Concat(Tail(ss))


\* ---- exceptions ----
\* An exception: its class ("PipelineError", "ValueError" or "Other"), the
\* code of a PipelineError, and its message (str(exc)) as a sequence of parts.
Exc(type, code, msg) == [type |-> type, code |-> code, msg |-> msg]
NoExc == Exc(NoneVal, NoneVal, NoMsg)
PipelineError(code, detail) == Exc("PipelineError", code, detail)
ValueError(msg) == Exc("ValueError", NoneVal, msg)
StartsWith(msg, prefix) == Len(msg) >= 1 /\ msg[1] = prefix

\* One failed provider attempt, by kind: the output did not parse or validate,
\* the provider answered non-2xx, or the transport failed (httpx raises an
\* error that is no ValueError).  `who` tells the messages of two calls apart.
AttemptError(kind, who) ==
    CASE kind = "schema" -> ValueError(<<"LLM_OUTPUT_INVALID", "invalid json schema", who>>)
      [] kind = "status" -> ValueError(<<"LLM_API_ERROR", "(500)", who>>)
      [] kind = "transport" -> Exc("Other", NoneVal, <<"ConnectError", "transport", who>>)
ErrorKinds == {"schema", "status", "transport"}

\* ---- the parsed document ----
ImageLimit == IF scope = "images" THEN MaxPoolImages ELSE MaxImages
ChunkLimit == IF scope \in {"dedupe", "snippet"} THEN 1 ELSE MaxChunks

\* The texts of the one chunk of a document of scope "snippet": a short one;
\* long ones with the word abcd late in the text, after letters without
\* blanks, after words of nine letters (in capitals there), or not at all;
\* one that starts with a line break.
SnippetTexts ==
    << <<"x", "x", " ", "a", "b", "c", "d", " ", "x", "x">>,
       Rep("x", 200) \o <<" ", "a", "b", "c", "d">> \o Rep("y", 30),
       Spaced("x", 200) \o <<"A", "B", "c", "d">> \o Spaced("y", 56),
       Spaced("x", 230),
       <<"\n">> \o Rep("x", 190) \o <<" ", "y", "y", "y", "y">> >>
TextIds == IF scope = "snippet" THEN 1..Len(SnippetTexts) ELSE {0}

PDFs ==
    {[valid |-> FALSE, pages |-> 0, nChunks |-> 0, nImages |-> 0, text |-> 0],
     [valid |-> TRUE, pages |-> 0, nChunks |-> 0, nImages |-> 0, text |-> 0]}
    \cup {[valid |-> TRUE, pages |-> p, nChunks |-> c, nImages |-> i, text |-> t] :
            p \in {MaxPages, MaxPages + 1}, c \in 0..ChunkLimit, i \in 0..ImageLimit, t \in TextIds}

ChunkTextLen(i) == 10 * i
\* The text of chunk i.
ChunkText(p, i) == IF p.text = 0 THEN Rep("x", ChunkTextLen(i)) ELSE SnippetTexts[p.text]

RECURSIVE ChunkOffset(_)
ChunkOffset(i) == IF i <= 1 THEN 0 ELSE ChunkOffset(i - 1) + ChunkTextLen(i - 1) + 1

ParsedChunks(p) ==
    [i \in 1..p.nChunks |->
        [chunk_id |-> i, page |-> Min(i, p.pages), paragraph_index |-> i, text |-> ChunkText(p, i),
         char_start |-> ChunkOffset(i), char_end |-> ChunkOffset(i) + Len(ChunkText(p, i))]]

ParsedImages(p, run) ==
    [i \in 1..p.nImages |-> [image_id |-> <<run, i>>, page |-> Min(i, p.pages), image_index |-> i - 1]]

parse_pdf_bytes(p, run) ==
    IF ~p.valid THEN [ok |-> FALSE, exc |-> ValueError(<<"PARSE_FAILED", "invalid pdf">>),
                      pages |-> 0, chunks |-> <<>>, images |-> <<>>]
    ELSE IF p.pages = 0 THEN [ok |-> FALSE, exc |-> ValueError(<<"PARSE_FAILED", "empty pdf">>),
                      pages |-> 0, chunks |-> <<>>, images |-> <<>>]
    ELSE IF p.nChunks = 0 THEN [ok |-> FALSE, exc |-> ValueError(<<"PARSE_FAILED", "no extractable text">>),
                      pages |-> p.pages, chunks |-> <<>>, images |-> <<>>]
    ELSE [ok |-> TRUE, exc |-> NoExc, pages |-> p.pages,
          chunks |-> ParsedChunks(p), images |-> ParsedImages(p, run)]

\* ---- the parser: chunking ----
\* A paragraph is its page and its number of words (one letter each, a blank
\* between two of them); a chunk's text is the sequence of the paragraphs
\* joined in it (paras, their places in the input) and its length.
ParagraphLen(p) == 2 * p.words - 1

\* Lines 47-50: max(1, int(words * 1.3)).
_estimate_tokens(p) == Max(1, (p.words * 13) \div 10)

RECURSIVE JoinedLen(_, _)
\* len("\n\n".join(parts))
JoinedLen(paragraphs, parts) ==
    IF parts = <<>> THEN 0
    ELSE ParagraphLen(paragraphs[Head(parts)])
         + (IF Len(parts) > 1 THEN 2 ELSE 0) + JoinedLen(paragraphs, Tail(parts))
ChunkRow(paragraphs, page, parts) ==
    [page |-> page, text |-> [paras |-> parts, len |-> JoinedLen(paragraphs, parts)]]

\* A chunker that closes the chunk when the total would reach chunk_size.
ClosesMutant(current_parts, current_tokens, para_tokens, chunk_size) ==
    current_parts # <<>> /\ current_tokens + para_tokens >= chunk_size

\* Line 62.
Closes(current_parts, current_tokens, para_tokens, chunk_size) ==
    current_parts # <<>> /\ current_tokens + para_tokens > chunk_size

RECURSIVE ChunkLoop(_, _, _, _, _, _, _)
\* Lines 59-75: the loop from paragraph i on, then the last chunk.
ChunkLoop(paragraphs, chunk_size, i, rows, current_page, current_parts, current_tokens) ==
    IF i > Len(paragraphs)
    THEN IF current_parts # <<>> THEN Append(rows, ChunkRow(paragraphs, current_page, current_parts)) ELSE rows
    ELSE LET page == paragraphs[i].page
             para_tokens == _estimate_tokens(paragraphs[i])
         IN IF Closes(current_parts, current_tokens, para_tokens, chunk_size)
            THEN ChunkLoop(paragraphs, chunk_size, i + 1,
                           Append(rows, ChunkRow(paragraphs, current_page, current_parts)),
                           page, <<i>>, para_tokens)
            ELSE ChunkLoop(paragraphs, chunk_size, i + 1, rows,
                           IF current_parts = <<>> THEN page ELSE current_page,
                           Append(current_parts, i), current_tokens + para_tokens)

_chunk_paragraphs(paragraphs, chunk_size) ==
    ChunkLoop(paragraphs, chunk_size, 1, <<>>, paragraphs[1].page, <<>>, 0)

\* ---- the parser: chunk ids and character spans ----
Digits == <<"0", "1", "2", "3", "4", "5", "6", "7", "8", "9">>
RECURSIVE Decimal(_)
\* str(n) for n >= 0
Decimal(n) == IF n < 10 THEN <<Digits[n + 1]>> ELSE Decimal(n \div 10) \o <<Digits[(n % 10) + 1]>>
\* f"{n:0{width}d}"
ZeroPadded(n, width) == Rep("0", Max(0, width - Len(Decimal(n)))) \o Decimal(n)
\* f"c_{i:04d}" (line 170)
FormatChunkId(i) == <<"c", "_">> \o ZeroPadded(i, ChunkIdWidth)

\* An offset that does not skip the separator.
NextOffsetMutant(end) == end

\* Line 178.
NextOffset(end) == end + 1

RECURSIVE AssembleFrom(_, _, _)
\* Lines 165-178: the chunks from row i on, the running offset being offset.
AssembleFrom(rows, i, offset) ==
    IF i > Len(rows) THEN <<>>
    ELSE <<[chunk_id |-> FormatChunkId(i), page |-> rows[i].page, paragraph_index |-> i,
            text |-> rows[i].text, char_start |-> offset, char_end |-> offset + rows[i].text.len]>>
         \o AssembleFrom(rows, i + 1, NextOffset(offset + rows[i].text.len))
AssembleChunks(rows) == AssembleFrom(rows, 1, 0)

\* ---- the job row ----
\* The checkpoints with the one after dedupe below the one before it.
CheckpointMutant(stage) ==
    CASE stage = "start" -> 5 [] stage = "parse" -> 15 [] stage = "language" -> 20
      [] stage = "images" -> 25 [] stage = "extract" -> 35 [] stage = "dedupe" -> 30
      [] stage = "outline" -> 65 [] stage = "annotate" -> 75 [] stage = "persist" -> 90
      [] stage = "done" -> 100

\* The progress run commits after each stage, in hundredths (lines 200-418).
Checkpoint(stage) ==
    CASE stage = "start" -> 5 [] stage = "parse" -> 15 [] stage = "language" -> 20
      [] stage = "images" -> 25 [] stage = "extract" -> 35 [] stage = "dedupe" -> 50
      [] stage = "outline" -> 65 [] stage = "annotate" -> 75 [] stage = "persist" -> 90
      [] stage = "done" -> 100

_set_job(j, status, progress) ==
    [j EXCEPT !.status = IF status # NoneVal THEN status ELSE @,
              !.progress = IF progress # NoInt THEN progress ELSE @]

\* The except clauses, the first of them leaving the status as it is.
HandleErrorMutant(j, exc) ==
    IF exc.type = "PipelineError"
    THEN [j EXCEPT !.error_code = exc.code, !.error_detail = exc.msg]
    ELSE [j EXCEPT !.status = "failed", !.error_code = "GEN_TIMEOUT", !.error_detail = exc.msg]

\* The except clauses, the second of them taking the code of the exception
\* as the first does.
HandleErrorCodeMutant(j, exc) ==
    [j EXCEPT !.status = "failed", !.error_code = exc.code, !.error_detail = exc.msg]

\* The two except clauses of run: what they write to the job.
HandleError(j, exc) ==
    IF exc.type = "PipelineError"
    THEN [j EXCEPT !.status = "failed", !.error_code = exc.code, !.error_detail = exc.msg]
    ELSE [j EXCEPT !.status = "failed",
                   !.error_code = IF StartsWith(exc.msg, "LLM_API_ERROR") THEN "LLM_API_ERROR"
                                  ELSE IF StartsWith(exc.msg, "LLM_OUTPUT_INVALID") THEN "LLM_OUTPUT_INVALID"
                                  ELSE "GEN_TIMEOUT",
                   !.error_detail = exc.msg]

\* The document marked failed with its page count cleared.
FailDocumentMutant(d) == [d EXCEPT !.status = "failed", !.pages = NoInt]

\* ... and to the document.
FailDocument(d) == [d EXCEPT !.status = "failed"]

\* The except clause of process_document: the job only.
WorkerFailure(j, exc) ==
    [j EXCEPT !.status = "failed", !.error_code = "STORAGE_ERROR", !.error_detail = exc.msg]

\* ---- LLM gateway: extract_facts ----
\* What one provider attempt can end with: an answer that parses and validates
\* (t = "answer"), or a failure of one of ErrorKinds (t = "err").
Attempt(t, answer, kind) == [t |-> t, answer |-> answer, kind |-> kind]
Importances == {50, 90}
FactItems == [stmt : 1..MaxStmt, importance : Importances]
PlainFactItem == [stmt |-> 1, importance |-> 50]
DedupeItems == [stmt : 1..MaxDedupeStmt, importance : Importances]
DedupeAnswers == UNION {[1..n -> DedupeItems] : n \in 1..MaxDedupeFacts}

\* The facts lists a provider answers with (an empty list is in ExtractFailures).
FactAnswers ==
    CASE scope = "facts" -> {<<a>> : a \in FactItems}
                            \cup {<<a, PlainFactItem>> : a \in FactItems}
      [] scope = "outline" -> {<<PlainFactItem>>, <<PlainFactItem, [stmt |-> MaxStmt, importance |-> 50]>>}
      [] scope = "rerun" -> {<<PlainFactItem>>}
      [] scope = "images" -> {<<PlainFactItem>>}
      [] scope = "dedupe" -> DedupeAnswers
      [] scope = "snippet" -> {<<[stmt |-> s, importance |-> 50]>> : s \in 1..4}

\* The attempts of one gateway call, as many as its retry loop makes at
\* most: failed attempts, then possibly an answer that is accepted (the
\* attempts after that one are never made).
AttemptSeqs(failures, accepted) ==
    LET R == LLMMaxRetries + 1
        unused == Attempt("err", <<>>, "schema")
    IN UNION {
         {[i \in 1..R |-> IF i <= k THEN f[i] ELSE IF i = k + 1 THEN a ELSE unused] :
              f \in [1..k -> failures], a \in accepted}
         : k \in 0..(R - 1)}
       \cup [1..R -> failures]

ExtractFailures ==
    {Attempt("err", <<>>, k) : k \in ErrorKinds} \cup {Attempt("answer", <<>>, NoneVal)}
ExtractAttemptSeqs ==
    AttemptSeqs(ExtractFailures, {Attempt("answer", a, NoneVal) : a \in FactAnswers \ {<<>>}})

FactsOf(chunk_id, items) ==
    [idx \in 1..Min(MaxFactsPerCall, Len(items)) |->
        [fact_id |-> <<chunk_id, idx>>, chunk_id |-> chunk_id,
         stmt |-> items[idx].stmt, importance |-> items[idx].importance]]

\* The outcome of attempt a of extract_facts: the facts, or the error it leaves
\* in last_error (an answer without facts raises "no facts returned").
ExtractAttemptResult(chunk_id, a) ==
    IF a.t = "err" THEN [ok |-> FALSE, facts |-> <<>>, exc |-> AttemptError(a.kind, chunk_id)]
    ELSE IF a.answer = <<>>
         THEN [ok |-> FALSE, facts |-> <<>>,
               exc |-> ValueError(<<"LLM_OUTPUT_INVALID", "no facts returned", chunk_id>>)]
         ELSE [ok |-> TRUE, facts |-> FactsOf(chunk_id, a.answer), exc |-> NoExc]

\* A loop that always makes every attempt of its budget and keeps the last.
RetryLoopMutant(results, i, budget) == [res |-> results[budget], calls |-> budget]

\* The retry loop: the first attempt that succeeds returns; after the last
\* failed attempt, last_error is raised.  calls: provider calls made.
RECURSIVE RetryLoop(_, _, _)
RetryLoop(results, i, budget) ==
    IF results[i].ok THEN [res |-> results[i], calls |-> i]
    ELSE IF i >= budget THEN [res |-> results[i], calls |-> i]
    ELSE RetryLoop(results, i + 1, budget)

extract_facts(chunk_id, attempts) ==
    RetryLoop([i \in 1..Len(attempts) |-> ExtractAttemptResult(chunk_id, attempts[i])],
              1, LLMMaxRetries + 1)

\* ---- LLM gateway: the facts payload ----
\* A value of the parsed JSON is tagged with its kind: "none" (null, or the
\* key is missing), "str" (v its characters), "int" (v the integer), "num"
\* (v the number in hundredths), "list".
JNone == [k |-> "none"]
JStr(chars) == [k |-> "str", v |-> chars]
JInt(n) == [k |-> "int", v |-> n]
JNum(hundredths) == [k |-> "num", v |-> hundredths]
JList == [k |-> "list"]

UpperCase == <<"A", "B", "C", "D", "E", "F", "G", "H", "I", "J", "K", "L", "M", "N", "O", "P", "Q", "R", "S", "T", "U", "V", "W", "X", "Y", "Z">>
LowerCase == <<"a", "b", "c", "d", "e", "f", "g", "h", "i", "j", "k", "l", "m", "n", "o", "p", "q", "r", "s", "t", "u", "v", "w", "x", "y", "z">>
\* s.lower()
LowerAscii(s) ==
    [i \in 1..Len(s) |->
        IF \E j \in 1..Len(UpperCase) : UpperCase[j] = s[i]
        THEN LowerCase[CHOOSE j \in 1..Len(UpperCase) : UpperCase[j] = s[i]]
        ELSE s[i]]

\* bool(x) of a JSON value
Truthy(x) ==
    CASE x.k = "none" -> FALSE
      [] x.k = "str" -> x.v # <<>>
      [] x.k \in {"int", "num"} -> x.v # 0
      [] x.k = "list" -> TRUE
\* str(x) of a value that is a string or an integer
StrOf(x) == IF x.k = "str" THEN x.v ELSE Decimal(x.v)

AllowedTypes ==
    {<<"d", "e", "f", "i", "n", "i", "t", "i", "o", "n">>,
     <<"c", "l", "a", "i", "m">>,
     <<"m", "e", "t", "h", "o", "d">>,
     <<"r", "e", "s", "u", "l", "t">>,
     <<"l", "i", "m", "i", "t", "a", "t", "i", "o", "n">>,
     <<"f", "o", "r", "m", "u", "l", "a">>}
ClaimType == <<"c", "l", "a", "i", "m">>
NoStatement == <<"N", "o", " ", "s", "t", "a", "t", "e", "m", "e", "n", "t", ".">>
DetailSuffix == <<" ", "(", "d", "e", "t", "a", "i", "l", ")">>

\* Lines 199-202: the statement of an item.
NormalStatement(item) ==
    LET given == IF Truthy(item.statement) THEN Strip(StrOf(item.statement)) ELSE <<>>
        st == IF given = <<>> THEN NoStatement ELSE given
        padded == IF Len(st) < StatementMinLen
                  THEN Slice(Strip(st \o DetailSuffix), 0, StatementMaxLen) ELSE st
    IN Slice(padded, 0, StatementMaxLen)

\* Lines 203-205.
NormalType(item) ==
    LET raw == IF Truthy(item.fact_type) THEN StrOf(item.fact_type)
               ELSE IF Truthy(item.type) THEN StrOf(item.type) ELSE ClaimType
    IN IF LowerAscii(raw) \in AllowedTypes THEN LowerAscii(raw) ELSE ClaimType

\* float(x), in hundredths: a number, or a string that reads as one (numeric
\* says so, v is its value); anything else raises TypeError or ValueError.
FloatOf(x) ==
    CASE x.k \in {"num", "int"} -> [ok |-> TRUE, v |-> IF x.k = "int" THEN 100 * x.v ELSE x.v]
      [] x.k = "str" -> IF x.numeric THEN [ok |-> TRUE, v |-> x.v] ELSE [ok |-> FALSE, v |-> 0]
      [] OTHER -> [ok |-> FALSE, v |-> 0]

\* Lines 206-211; a missing key takes the default 0.5.
NormalImportance(item) ==
    LET imp == IF item.importance.k = "missing" THEN 50
               ELSE IF FloatOf(item.importance).ok THEN FloatOf(item.importance).v ELSE 50
    IN Max(0, Min(100, imp))

IsDict(item) == "statement" \in DOMAIN item

\* Lines 191-213: the items that are objects, normalised.
_normalize_facts_payload(payload) ==
    LET dicts == SelectSeq(payload, IsDict)
    IN [i \in 1..Len(dicts) |->
          [statement |-> NormalStatement(dicts[i]), fact_type |-> NormalType(dicts[i]),
           importance |-> NormalImportance(dicts[i])]]

\* FactItem (lines 23-26).
FactItemOk(it) ==
    /\ Len(it.statement) >= StatementMinLen /\ Len(it.statement) <= StatementMaxLen
    /\ it.fact_type \in AllowedTypes
    /\ it.importance >= 0 /\ it.importance <= 100

\* One turn of the loop of extract_facts (lines 282-301) on the payload that
\* the provider's answer parses to: _parse_json_content normalises and
\* validates, then the first MaxFactsPerCall items become FactCandidates.
ExtractTurn(chunk_id, payload) ==
    LET items == _normalize_facts_payload(payload)
    IN IF \E i \in 1..Len(items) : ~FactItemOk(items[i])
       THEN [ok |-> FALSE, facts |-> <<>>,
             exc |-> ValueError(<<"LLM_OUTPUT_INVALID", "invalid json schema", chunk_id>>)]
       ELSE IF items = <<>>
       THEN [ok |-> FALSE, facts |-> <<>>,
             exc |-> ValueError(<<"LLM_OUTPUT_INVALID", "no facts returned", chunk_id>>)]
       ELSE [ok |-> TRUE, exc |-> NoExc,
             facts |-> [idx \in 1..Min(MaxFactsPerCall, Len(items)) |->
                          [fact_id |-> <<chunk_id, idx>>, chunk_id |-> chunk_id,
                           statement |-> Strip(items[idx].statement),
                           fact_type |-> items[idx].fact_type,
                           importance |-> items[idx].importance]]]

\* extract_facts with a provider that gives the same payload at every attempt.
extract_facts_payload(chunk_id, payload) ==
    RetryLoop([i \in 1..(LLMMaxRetries + 1) |-> ExtractTurn(chunk_id, payload)], 1, LLMMaxRetries + 1)

\* ---- Deduper ----
\* fuzz.token_sort_ratio on statements, which are numbered: a statement equals
\* itself, statements 2,3 and 3,4 and so on are near-duplicates (a relation
\* that is not transitive), anything else is far apart.
TokenSortRatio(a, b) ==
    IF a = b THEN 100
    ELSE IF (a - b) \in {1, -1} /\ Min(a, b) >= 2 THEN 90
    ELSE 40
StmtLen(s) == 20 + s

\* The statement numbered s, StmtLen(s) characters long: a word of four
\* letters (1), short words only (2), two words in capitals and small
\* letters (3), a word no text has (others); then words of two letters.
StmtWords(s) ==
    CASE s = 1 -> <<"a", "b", "c", "d">>
      [] s = 2 -> <<"a", "b", " ", "c", "d">>
      [] s = 3 -> <<"A", "B", "c", "d", " ", "y", "y", "y", "y">>
      [] OTHER -> <<"d", "c", "b", "a">>
StmtText(s) ==
    StmtWords(s) \o [i \in 1..(StmtLen(s) - Len(StmtWords(s))) |-> IF i % 3 = 1 THEN " " ELSE "z"]

\* The first kept entry that f duplicates, 0 if none (lines 58-72).
FirstDup(kept, f, threshold) ==
    LET hits == {i \in 1..Len(kept) :
                    /\ ~ (Min(StmtLen(f.stmt), StmtLen(kept[i].stmt)) * 100
                            < threshold * Max(StmtLen(f.stmt), StmtLen(kept[i].stmt)))
                    /\ TokenSortRatio(f.stmt, kept[i].stmt) >= threshold}
    IN IF hits = {} THEN 0 ELSE CHOOSE i \in hits : \A j \in hits : i <= j

\* One step that puts a new fact in front of the kept ones.
DedupeOnePrependMutant(kept, f, threshold) ==
    LET i == FirstDup(kept, f, threshold)
    IN IF i = 0 THEN <<f>> \o kept
       ELSE IF f.importance > kept[i].importance THEN [kept EXCEPT ![i] = f]
       ELSE kept

\* One step that lets a duplicate of equal importance replace the kept entry.
DedupeOneTieMutant(kept, f, threshold) ==
    LET i == FirstDup(kept, f, threshold)
    IN IF i = 0 THEN Append(kept, f)
       ELSE IF f.importance >= kept[i].importance THEN [kept EXCEPT ![i] = f]
       ELSE kept

\* One turn of the loop over the input (lines 54-76).
DedupeOne(kept, f, threshold) ==
    LET i == FirstDup(kept, f, threshold)
    IN IF i = 0 THEN Append(kept, f)
       ELSE IF f.importance > kept[i].importance THEN [kept EXCEPT ![i] = f]
       ELSE kept

RECURSIVE DedupeFrom(_, _, _)
DedupeFrom(kept, rest, threshold) ==
    IF rest = <<>> THEN kept
    ELSE DedupeFrom(DedupeOne(kept, Head(rest), threshold), Tail(rest), threshold)

_fuzzy_dedupe(fs, threshold) == DedupeFrom(<<>>, fs, threshold)

\* ---- LLM gateway: build_outline ----
\* An outline: a sequence of sections, a section a sequence of subsections,
\* a subsection the sequence of its fact_indices (0-based).
IdxLists(n) == {<<>>, <<0>>, <<n - 1>>, <<0, 0>>}

\* Outlines that pass OutlineResponse and the range check, with at most
\* MaxSubsections subsections in all, and two that do not.
ValidOutlineAnswers(n) ==
    IF scope # "outline" THEN {<< << <<0>> >> >>}
    ELSE UNION {
        {<<sec>> : sec \in [1..k -> IdxLists(n)]}
        \cup (IF k = 1 THEN {} ELSE {<< <<l1>>, sec >> : l1 \in IdxLists(n), sec \in [1..(k - 1) -> IdxLists(n)]})
        : k \in 1..MaxSubsections}
NoSectionsAnswer == <<>>
OutOfRangeAnswer(n) == << << <<n>> >> >>

OutlineFailures(n) ==
    {Attempt("err", <<>>, k) : k \in ErrorKinds}
    \cup {Attempt("answer", NoSectionsAnswer, NoneVal), Attempt("answer", OutOfRangeAnswer(n), NoneVal)}

OutlineAttemptSeqs(n) ==
    AttemptSeqs(OutlineFailures(n), {Attempt("answer", o, NoneVal) : o \in ValidOutlineAnswers(n)})

SubsectionsOf(o) == Concat(o)
AllIndices(o) == Concat(SubsectionsOf(o))
UsedIndices(o) == Range(AllIndices(o))

\* OutlineResponse.model_validate: 1..15 sections of 1..5 subsections each.
OutlineSchemaOk(o) ==
    /\ Len(o) >= 1 /\ Len(o) <= OutlineMaxSections
    /\ \A s \in 1..Len(o) : Len(o[s]) >= 1 /\ Len(o[s]) <= OutlineMaxSubsections


\* The outline as the provider gave it.
AppendUnusedMutant(o, n) == o

\* Lines 360-364: the unused indices, sorted, go to the last subsection.
AppendUnused(o, n) ==
    LET unused == (0..(n - 1)) \ UsedIndices(o)
    IN IF unused # {} /\ o # <<>>
       THEN [o EXCEPT ![Len(o)][Len(o[Len(o)])] = @ \o SortedSeq(unused)]
       ELSE o

OutlineAttemptResult(n, a) ==
    IF a.t = "err" THEN [ok |-> FALSE, outline |-> <<>>, exc |-> AttemptError(a.kind, 0)]
    ELSE IF ~OutlineSchemaOk(a.answer)
         THEN [ok |-> FALSE, outline |-> <<>>, exc |-> ValueError(<<"validation error", "OutlineResponse", 0>>)]
    ELSE IF \E idx \in UsedIndices(a.answer) : idx \notin 0..(n - 1)
         THEN [ok |-> FALSE, outline |-> <<>>, exc |-> ValueError(<<"fact_index", "out of range", 0>>)]
    ELSE [ok |-> TRUE, outline |-> AppendUnused(a.answer, n), exc |-> NoExc]

build_outline(n, attempts) ==
    RetryLoop([i \in 1..Len(attempts) |-> OutlineAttemptResult(n, attempts[i])],
              1, LLMMaxRetries + 1)

\* ---- LLM gateway: build_outline in mock mode ----
CeilDiv(a, b) == (a + b - 1) \div b

\* Lines 374-399: sections of two blocks of MockGroupSize consecutive indices,
\* one "Overview" section for no facts; the OutlineResponse constructor
\* validates what it is given.
_mock_outline(n) ==
    LET per == MockGroupSize * 2
        secs == [s \in 1..CeilDiv(n, per) |->
                    LET base == (s - 1) * per
                        len == Min(per, n - base)
                    IN [ss \in 1..CeilDiv(len, MockGroupSize) |->
                           [j \in 1..Min(MockGroupSize, len - (ss - 1) * MockGroupSize) |->
                               base + (ss - 1) * MockGroupSize + (j - 1)]]]
        o == IF secs = <<>> THEN << << [j \in 1..n |-> j - 1] >> >> ELSE secs
    IN IF OutlineSchemaOk(o) THEN [ok |-> TRUE, outline |-> o, exc |-> NoExc]
       ELSE [ok |-> FALSE, outline |-> <<>>, exc |-> ValueError(<<"validation error", "OutlineResponse", 0>>)]

\* ---- LLM gateway: write_annotations ----
\* An answer: the items (subsection_index, annotation) of AnnotationsResponse.
AnnotationAnswers(total_subs) ==
    IF scope # "outline" THEN {<<>>}
    ELSE {<<>>,
          [k \in 1..total_subs |-> [subsection_index |-> k - 1, annotation |-> "note"]],
          <<[subsection_index |-> total_subs, annotation |-> "stray"],
            [subsection_index |-> total_subs - 1, annotation |-> "last"]>>}

AnnotationAttempts(total_subs) ==
    {Attempt("answer", a, NoneVal) : a \in AnnotationAnswers(total_subs)}
    \cup {Attempt("err", <<>>, k) : k \in ErrorKinds}

\* A placeholder text for every subsection when the call fails.
write_annotationsMutant(total_subs, a) ==
    IF a.t = "err" THEN [k \in 1..total_subs |-> "n/a"]
    ELSE [k \in 1..total_subs |->
            LET given == {i \in 1..Len(a.answer) : a.answer[i].subsection_index = k - 1}
            IN IF given = {} THEN ""
               ELSE a.answer[CHOOSE i \in given : \A j \in given : j <= i].annotation]

\* One attempt, no retry: the annotations by subsection_index, "" where none
\* was given; all "" when the call fails.
write_annotations(total_subs, a) ==
    IF a.t = "err" THEN [k \in 1..total_subs |-> ""]
    ELSE [k \in 1..total_subs |->
            LET given == {i \in 1..Len(a.answer) : a.answer[i].subsection_index = k - 1}
            IN IF given = {} THEN ""
               ELSE a.answer[CHOOSE i \in given : \A j \in given : j <= i].annotation]

\* Lines 405-407: in mock mode, the same text for every subsection.
write_annotations_mock(total) == [k \in 1..total |-> "Key concepts and their implications."]

\* ---- CitationLocator ----
\* Line 86: the words of the statement longer than 3 characters, lowercased.
Keywords(statement) == {Lower(w) : w \in {x \in Words(statement) : Len(x) > KeywordMinLen}}

\* Lines 94-96: the keywords found in the window at start.
Score(chunk_text, start, max_len, kws) ==
    Cardinality({kw \in kws : Contains(Lower(Slice(chunk_text, start, start + max_len)), kw)})

\* range(0, len(chunk_text) - max_len + 1, step)
WindowStarts(chunk_text, max_len) ==
    {k * SnippetStep : k \in 0..((Len(chunk_text) - max_len) \div SnippetStep)}

\* Lines 90-99: the first window of the greatest score.
BestStart(chunk_text, max_len, kws) ==
    CHOOSE st \in WindowStarts(chunk_text, max_len) :
        \A o \in WindowStarts(chunk_text, max_len) :
            \/ Score(chunk_text, st, max_len, kws) > Score(chunk_text, o, max_len, kws)
            \/ Score(chunk_text, st, max_len, kws) = Score(chunk_text, o, max_len, kws) /\ st <= o

\* Lines 101-107: the window, from the word after its first blank when the
\* window is not the first and the blank is among its first 20 characters.
WindowSnippet(chunk_text, best_start, max_len) ==
    LET snippet == Slice(chunk_text, best_start, best_start + max_len)
        space == Find(snippet, " ")
    IN Strip(IF best_start > 0 /\ space # 0 - 1 /\ space < BoundaryLimit
             THEN Slice(snippet, space + 1, Len(snippet)) ELSE snippet)

\* The whole text where its first max_len characters are meant.
PrefixSnippetMutant(chunk_text, max_len) == chunk_text

\* Line 88.
PrefixSnippet(chunk_text, max_len) == Slice(chunk_text, 0, max_len)

_find_best_snippet(statement, chunk_text, max_len) ==
    IF Len(chunk_text) <= max_len THEN chunk_text
    ELSE IF Keywords(statement) = {} THEN PrefixSnippet(chunk_text, max_len)
    ELSE WindowSnippet(chunk_text, BestStart(chunk_text, max_len, Keywords(statement)), max_len)

\* ---- stage S8: the rows of the deck ----
\* A map that gives every fact the first chunk of the document.
fact_to_chunkMutant(fs, cs) == [fid \in {fs[i].fact_id : i \in 1..Len(fs)} |-> cs[1]]

\* Lines 272-276: the chunk of every fact whose chunk_id names a parsed chunk.
fact_to_chunk(fs, cs) ==
    LET known == {i \in 1..Len(fs) : \E c \in 1..Len(cs) : cs[c].chunk_id = fs[i].chunk_id}
    IN [fid \in {fs[i].fact_id : i \in known} |->
          LET i == CHOOSE k \in known : fs[k].fact_id = fid
          IN cs[CHOOSE c \in 1..Len(cs) : cs[c].chunk_id = fs[i].chunk_id]]

\* formula_image_map is empty whenever stage S8 runs: building a formula fact
\* raises (see FormulaFacts), so no merged fact has a linked image.
formula_image_map == <<>>

SectionRows(run, o) ==
    {[id |-> <<run, "sec", s>>, document_id |-> DocId, sort_index |-> s - 1, run |-> run] :
        s \in 1..Len(o)}

\* A counter that starts again in every section.
AnnotationIdxMutant(o, s, ss) == ss - 1

\* annotation_idx of subsection ss of section s: the subsections before it.
AnnotationIdx(o, s, ss) == Len(SubsectionsOf(SubSeq(o, 1, s - 1))) + (ss - 1)

SubsectionRows(run, o, anns) ==
    UNION {{[id |-> <<run, "sub", s, ss>>, section_id |-> <<run, "sec", s>>,
             annotation |-> IF AnnotationIdx(o, s, ss) < Len(anns)
                            THEN anns[AnnotationIdx(o, s, ss) + 1] ELSE "",
             sort_index |-> ss - 1, run |-> run] : ss \in 1..Len(o[s])} : s \in 1..Len(o)}

\* The positions (section, subsection, place in fact_indices) that become
\* bullets: an index past the merged facts is skipped (line 343).
BulletPositions(o, mf) ==
    UNION {UNION {{<<s, ss, b>> : b \in {k \in 1..Len(o[s][ss]) : ~ (o[s][ss][k] >= Len(mf))}}
                  : ss \in 1..Len(o[s])} : s \in 1..Len(o)}

FactAt(o, mf, pos) == mf[o[pos[1]][pos[2]][pos[3]] + 1]

\* The bullets with the fact index as sort_index.
BulletRowsMutant(run, o, mf) ==
    {[id |-> <<run, "bul", pos[1], pos[2], pos[3]>>,
      subsection_id |-> <<run, "sub", pos[1], pos[2]>>,
      text |-> FactAt(o, mf, pos).stmt, sort_index |-> o[pos[1]][pos[2]][pos[3]],
      image_id |-> NoneVal, fact_id |-> FactAt(o, mf, pos).fact_id, run |-> run] :
        pos \in BulletPositions(o, mf)}

\* Lines 341-358: a bullet for every position, its sort_index the place in
\* fact_indices.
BulletRows(run, o, mf) ==
    {[id |-> <<run, "bul", pos[1], pos[2], pos[3]>>,
      subsection_id |-> <<run, "sub", pos[1], pos[2]>>,
      text |-> FactAt(o, mf, pos).stmt, sort_index |-> pos[3] - 1,
      image_id |-> NoneVal, fact_id |-> FactAt(o, mf, pos).fact_id, run |-> run] :
        pos \in BulletPositions(o, mf)}

\* Lines 364-390: a span for every bullet whose fact has a source chunk
\* (the branch of a linked image is never taken: formula_image_map is empty).
SpanRows(run, o, mf, f2c) ==
    {[id |-> <<run, "span", pos[1], pos[2], pos[3]>>, document_id |-> DocId,
      page |-> f2c[FactAt(o, mf, pos).fact_id].page,
      paragraph_index |-> f2c[FactAt(o, mf, pos).fact_id].paragraph_index,
      quote_snippet |-> _find_best_snippet(StmtText(FactAt(o, mf, pos).stmt),
                                           f2c[FactAt(o, mf, pos).fact_id].text, SnippetMaxLen),
      char_start |-> f2c[FactAt(o, mf, pos).fact_id].char_start,
      char_end |-> f2c[FactAt(o, mf, pos).fact_id].char_end, run |-> run] :
        pos \in {q \in BulletPositions(o, mf) : FactAt(o, mf, q).fact_id \in DOMAIN f2c}}

\* No citation for the first bullet of a subsection.
CitationRowsMutant(run, spanRows) ==
    {[id |-> <<run, "cit", sp.id[3], sp.id[4], sp.id[5]>>,
      bullet_id |-> <<run, "bul", sp.id[3], sp.id[4], sp.id[5]>>,
      source_span_id |-> sp.id, run |-> run] : sp \in {x \in spanRows : x.id[5] > 1}}

\* Lines 395-398: one citation per pending span, to the bullet it was made for.
CitationRows(run, spanRows) ==
    {[id |-> <<run, "cit", sp.id[3], sp.id[4], sp.id[5]>>,
      bullet_id |-> <<run, "bul", sp.id[3], sp.id[4], sp.id[5]>>,
      source_span_id |-> sp.id, run |-> run] : sp \in spanRows}

NoTally == [all_bullets |-> 0, cited_bullets |-> 0, used_fact_ids |-> {}]

\* ---- stage S9: the quality gate ----
\* The gate with the coverage comparison the wrong way round.
QualityGateMutant(t, mf) ==
    IF t.all_bullets # 0 /\ t.cited_bullets < t.all_bullets
    THEN PipelineError("CITATION_INCOMPLETE", <<"every bullet needs citation">>)
    ELSE IF mf # <<>> /\ Cardinality(t.used_fact_ids) * 100 >= QualityCoverageThresholdPct * Len(mf)
    THEN PipelineError("QUALITY_GATE_FAILED", <<"coverage=", Cardinality(t.used_fact_ids), Len(mf)>>)
    ELSE NoExc

\* Lines 404-410, in exact arithmetic: the error the gate raises, or NoExc.
QualityGate(t, mf) ==
    IF t.all_bullets # 0 /\ t.cited_bullets < t.all_bullets
    THEN PipelineError("CITATION_INCOMPLETE", <<"every bullet needs citation">>)
    ELSE IF mf # <<>> /\ Cardinality(t.used_fact_ids) * 100 < QualityCoverageThresholdPct * Len(mf)
    THEN PipelineError("QUALITY_GATE_FAILED", <<"coverage=", Cardinality(t.used_fact_ids), Len(mf)>>)
    ELSE NoExc

\* The metrics with the share of unused facts recorded as coverage_ratio.
MetricsMutant(t, mf, fs) ==
    [coverage_ratio |-> IF mf # <<>> THEN 100 - (Cardinality(t.used_fact_ids) * 100) \div Len(mf) ELSE 100,
     citation_completeness |-> IF t.all_bullets # 0 THEN (t.cited_bullets * 100) \div t.all_bullets ELSE 100,
     dedupe_ratio |-> 100 - ((Len(mf) * 100) \div Max(1, Len(fs)))]

\* Lines 412-416, in hundredths (rounded down).
Metrics(t, mf, fs) ==
    [coverage_ratio |-> IF mf # <<>> THEN (Cardinality(t.used_fact_ids) * 100) \div Len(mf) ELSE 100,
     citation_completeness |-> IF t.all_bullets # 0 THEN (t.cited_bullets * 100) \div t.all_bullets ELSE 100,
     dedupe_ratio |-> 100 - ((Len(mf) * 100) \div Max(1, Len(fs)))]

\* ---- the state machine ----
RunLimit == IF scope = "rerun" THEN MaxRuns ELSE 1

\* order: the place of the image's entry in the dict results (lines 139-144),
\* which is filled as the tasks complete; 0 while the task runs.
PendingImage == [state |-> "pending", latex |-> NoneVal, upload_ok |-> FALSE, session_reads |-> {},
                 order |-> 0]
PendingFuture == [state |-> "pending", ok |-> FALSE, facts |-> <<>>, exc |-> NoExc, session_reads |-> {},
                  gave_up_after |-> 0]
NoGateway == [outline_attempts |-> 0, annotation_attempts |-> 0, annotation_exc |-> NoExc]
NoCall == [fn |-> "none", args |-> <<>>, state |-> "none", ret |-> <<>>]

RunLocalsInit ==
    /\ chunks = <<>> /\ images = <<>> /\ imgResults = <<>> /\ doc_images = <<>>
    /\ futures = <<>> /\ completed = <<>> /\ collected = 0
    /\ facts = <<>> /\ errors = <<>> /\ raised = NoExc
    /\ merged_facts = <<>> /\ outline = <<>> /\ annotations = <<>> /\ tally = NoTally
    /\ llmIssued = FALSE /\ gateway = NoGateway
LocalsInit == RunLocalsInit /\ invoked = NoCall

\* create_document (routes.py): the document and its queued job exist.
StoreInit ==
    /\ pdf \in PDFs
    /\ job = [status |-> "queued", progress |-> 0, error_code |-> NoneVal,
              error_detail |-> NoMsg, metrics |-> NoMetrics]
    /\ doc = [status |-> "uploaded", pages |-> NoInt, language |-> NoneVal]
    /\ sections = {} /\ subsections = {} /\ bullets = {} /\ spans = {} /\ cits = {}
    /\ docImages = {} /\ blobs = {}
    /\ runs = 0 /\ pc = "idle"

Init == scope \in {"facts", "outline"} /\ StoreInit /\ LocalsInit
RerunInit == scope = "rerun" /\ StoreInit /\ LocalsInit
ImageInit == scope = "images" /\ StoreInit /\ LocalsInit
DedupeInit == scope = "dedupe" /\ StoreInit /\ LocalsInit
SnippetInit == scope = "snippet" /\ StoreInit /\ LocalsInit

\* What an exception leaving the try block of run does (lines 421-440).
Raise(j, exc) ==
    /\ job' = HandleError(j, exc)
    /\ doc' = FailDocument(doc)
    /\ raised' = exc
    /\ pc' = "return"

\* process_document: read the file, then call run; a StorageError of the read
\* is caught by the task (lines 20-27).
ProcessDocument ==
    /\ pc = "idle" /\ runs < RunLimit
    /\ runs' = runs + 1
    /\ \E read_ok \in BOOLEAN :
         IF read_ok THEN pc' = "start" /\ job' = job
         ELSE /\ job' = WorkerFailure(job, Exc("Other", NoneVal, <<"StorageError", "object not found">>))
              /\ pc' = "idle"
    /\ UNCHANGED <<invoked, scope, pdf, doc, deckVars, docImages, blobs, chunks, imgVars, poolVars,
                   lateVars, llmIssued, gateway>>

\* Line 200.
SetRunning ==
    /\ pc = "start"
    /\ job' = _set_job(job, "running", Checkpoint("start"))
    /\ pc' = "processing"
    /\ UNCHANGED <<invoked, scope, pdf, doc, deckVars, docImages, blobs, runs, chunks, imgVars, poolVars,
                   lateVars, llmIssued, gateway>>

\* Lines 201-203.
MarkProcessing ==
    /\ pc = "processing"
    /\ doc' = [doc EXCEPT !.status = "processing"]
    /\ pc' = "parse"
    /\ UNCHANGED <<invoked, scope, pdf, job, deckVars, docImages, blobs, runs, chunks, imgVars, poolVars,
                   lateVars, llmIssued, gateway>>

\* The page limit off by one.
TooLargeMutant(pages) == pages > MaxPages + 1

\* Line 210.
TooLarge(pages) == pages > MaxPages

\* Lines 205-213.
Parse ==
    /\ pc = "parse"
    /\ LET r == parse_pdf_bytes(pdf, runs)
       IN /\ chunks' = r.chunks
          /\ images' = r.images
          /\ IF ~r.ok THEN Raise(job, PipelineError("PARSE_FAILED", r.exc.msg))
             ELSE IF TooLarge(r.pages) THEN Raise(job, PipelineError("DOC_TOO_LARGE", <<"pages=", r.pages>>))
             ELSE /\ doc' = [doc EXCEPT !.pages = r.pages]
                  /\ job' = _set_job(job, NoneVal, Checkpoint("parse"))
                  /\ raised' = raised
                  /\ pc' = "language"
    /\ UNCHANGED <<invoked, scope, pdf, deckVars, docImages, blobs, runs, imgResults, doc_images,
                   futures, completed, collected, facts, errors, lateVars, llmIssued, gateway>>

\* Lines 215-220; _detect_language never raises, its result is "en" here.
\* Entering stage S3 the image tasks are submitted (line 137).
Language ==
    /\ pc = "language"
    /\ doc' = [doc EXCEPT !.language = "en"]
    /\ job' = _set_job(job, NoneVal, Checkpoint("language"))
    /\ imgResults' = [i \in 1..Len(images) |-> PendingImage]
    /\ pc' = "images"
    /\ UNCHANGED <<invoked, scope, pdf, deckVars, docImages, blobs, runs, chunks, images, doc_images, poolVars,
                   lateVars, llmIssued, gateway>>

\* A pool that is left without waiting for its tasks.
DrainedMutant(results) == TRUE

\* ThreadPoolExecutor.__exit__ (lines 136 and 257): shutdown(wait=True)
\* returns when every submitted task has finished.
Drained(results) == \A i \in 1..Len(results) : results[i].state = "done"

\* _process_one on a pool thread (lines 122-132): detect, then upload.  The
\* storage key is built from doc.id (line 124): the pool thread reads an
\* attribute of the Document that the orchestrator's session holds.  A task
\* that raises is recorded as (None, "", False) at line 144, which is the
\* outcome "no LaTeX, upload failed" here.
ImageWorker(i) ==
    /\ pc = "images"
    /\ i \in 1..Len(images) /\ imgResults[i].state = "pending"
    /\ \E latex \in {NoneVal, "latex"}, upload_ok \in BOOLEAN :
         /\ imgResults' = [imgResults EXCEPT ![i] = [state |-> "done", latex |-> latex, upload_ok |-> upload_ok,
                                                    session_reads |-> {"doc"},
                                                    order |-> 1 + Cardinality({j \in 1..Len(imgResults) :
                                                                        imgResults[j].state = "done"})]]
         /\ blobs' = IF upload_ok THEN blobs \cup {images[i].image_id} ELSE blobs
    /\ UNCHANGED <<invoked, scope, pdf, dbVars, runs, pc, chunks, images, doc_images, poolVars, lateVars, llmIssued, gateway>>

\* The rows in the order of the dict results: the order of completion.
ImageRowsMutant(imgs, results, run) ==
    LET byOrder == [k \in 1..Len(imgs) |-> CHOOSE i \in 1..Len(imgs) : results[i].order = k]
        kept == SelectSeq(byOrder, LAMBDA i : results[i].upload_ok)
    IN [k \in 1..Len(kept) |->
          [id |-> <<run, "img", kept[k]>>, document_id |-> DocId, page |-> imgs[kept[k]].page,
           image_index |-> imgs[kept[k]].image_index, storage_key |-> imgs[kept[k]].image_id,
           is_formula |-> results[kept[k]].latex # NoneVal, latex |-> results[kept[k]].latex,
           run |-> run]]

\* Lines 146-166: the rows of the uploaded images, in input order.
ImageRows(imgs, results, run) ==
    LET kept == SortedSeq({i \in 1..Len(imgs) : results[i].upload_ok})
    IN [k \in 1..Len(kept) |->
          [id |-> <<run, "img", kept[k]>>, document_id |-> DocId, page |-> imgs[kept[k]].page,
           image_index |-> imgs[kept[k]].image_index, storage_key |-> imgs[kept[k]].image_id,
           is_formula |-> results[kept[k]].latex # NoneVal, latex |-> results[kept[k]].latex,
           run |-> run]]

\* Lines 235-247: FactCandidate has no field `keywords` and requires
\* fact_type, so building the first formula fact raises TypeError.
FormulaFacts(dis) ==
    IF \E k \in 1..Len(dis) : dis[k].is_formula /\ dis[k].latex # NoneVal
    THEN [ok |-> FALSE, facts |-> <<>>,
          exc |-> Exc("Other", NoneVal, <<"TypeError", "unexpected keyword argument 'keywords'">>)]
    ELSE [ok |-> TRUE, facts |-> <<>>, exc |-> NoExc]

\* Rows that take the place of the document's earlier rows.
db_addMutant(table, rows) == {r \in table : r.document_id # DocId} \cup rows

\* db.add of each new row (line 165) and the commit of line 170: the table
\* gets the rows, and loses none.
db_add(table, rows) == table \cup rows

\* The pool of _process_images has drained: lines 146-171 and 230.
ImagesDone ==
    /\ pc = "images"
    /\ Drained(imgResults)
    /\ LET rows == ImageRows(images, imgResults, runs)
       IN /\ doc_images' = rows
          /\ docImages' = db_add(docImages, Range(rows))
    /\ job' = _set_job(job, NoneVal, Checkpoint("images"))
    /\ pc' = "formulas"
    /\ UNCHANGED <<invoked, scope, pdf, doc, deckVars, blobs, runs, chunks, images, imgResults, poolVars,
                   lateVars, llmIssued, gateway>>

\* Lines 232-247.  Entering stage S4 the extraction tasks are submitted
\* (line 258).
BuildFormulaFacts ==
    /\ pc = "formulas"
    /\ LET ff == FormulaFacts(doc_images)
       IN IF ~ff.ok THEN Raise(job, ff.exc) /\ futures' = futures
          ELSE /\ pc' = "extract"
               /\ futures' = [c \in 1..Len(chunks) |-> PendingFuture]
               /\ UNCHANGED <<job, doc, raised>>
    /\ UNCHANGED <<invoked, scope, pdf, deckVars, docImages, blobs, runs, chunks, imgVars,
                   completed, collected, facts, errors, lateVars, llmIssued, gateway>>

\* _extract_one on a pool thread (lines 254-255): one extract_facts call on
\* the chunk's id and text, plain values of the parser.
\* It runs also while an exception waits for the pool to shut down.
ExtractWorker(c) ==
    /\ pc \in {"extract", "extract_abort"}
    /\ c \in 1..Len(chunks) /\ futures[c].state = "pending"
    /\ \E attempts \in ExtractAttemptSeqs :
         LET call == extract_facts(chunks[c].chunk_id, attempts)
             r == call.res
         IN futures' = [futures EXCEPT ![c] = [state |-> "done", ok |-> r.ok, facts |-> r.facts, exc |-> r.exc,
                                               session_reads |-> {},
                                               gave_up_after |-> IF r.ok THEN 0 ELSE call.calls]]
    /\ completed' = Append(completed, c)
    /\ llmIssued' = TRUE /\ gateway' = gateway
    /\ UNCHANGED <<invoked, scope, pdf, dbVars, blobs, runs, pc, chunks, imgVars, collected, facts, errors,
                   raised, lateVars>>


\* A loop that lets every error of a future through.
CollectsNothingMutant(exc) == FALSE

\* Line 262: the errors of a future that the loop collects.
Collects(exc) == exc.type = "ValueError"

\* One turn of the as_completed loop (lines 259-263): the next finished
\* future, in completion order.
ExtractCollect ==
    /\ pc = "extract"
    /\ collected < Len(completed)
    /\ collected' = collected + 1
    /\ LET r == futures[completed[collected + 1]]
       IN IF r.ok THEN facts' = facts \o r.facts /\ UNCHANGED <<errors, raised, pc>>
          ELSE IF Collects(r.exc)
               THEN errors' = Append(errors, r.exc.msg) /\ UNCHANGED <<facts, raised, pc>>
               ELSE raised' = r.exc /\ pc' = "extract_abort" /\ UNCHANGED <<facts, errors>>
    /\ UNCHANGED <<invoked, scope, pdf, dbVars, blobs, runs, chunks, imgVars, futures, completed, lateVars,
                   llmIssued, gateway>>

\* The with block is left by the exception once every task has finished
\* (ThreadPoolExecutor.__exit__ waits); then the handler of run commits.
ExtractAbort ==
    /\ pc = "extract_abort"
    /\ Drained(futures)
    /\ Raise(job, raised)
    /\ UNCHANGED <<invoked, scope, pdf, deckVars, docImages, blobs, runs, chunks, imgVars, poolVars, lateVars,
                   llmIssued, gateway>>


\* Line 264.
AllFailed(fs, es) == es # <<>> /\ fs = <<>>

\* Lines 264-269, after the loop has consumed every future.
ExtractJoin ==
    /\ pc = "extract"
    /\ collected = Len(chunks)
    /\ IF AllFailed(facts, errors)
       THEN Raise(job, PipelineError("LLM_OUTPUT_INVALID", errors[1])) /\ facts' = facts
       ELSE /\ facts' = facts \o FormulaFacts(doc_images).facts
            /\ job' = _set_job(job, NoneVal, Checkpoint("extract"))
            /\ doc' = doc
            /\ raised' = raised
            /\ pc' = "dedupe"
    /\ UNCHANGED <<invoked, scope, pdf, deckVars, docImages, blobs, runs, chunks, imgVars, futures, completed,
                   collected, errors, lateVars, llmIssued, gateway>>

\* Lines 271-280.  The pool's futures and the errors list are not read again.
Dedupe ==
    /\ pc = "dedupe"
    /\ merged_facts' = _fuzzy_dedupe(facts, DedupeThresholdPct)
    /\ job' = _set_job(job, NoneVal, Checkpoint("dedupe"))
    /\ pc' = "outline"
    /\ futures' = <<>> /\ completed' = <<>> /\ collected' = 0 /\ errors' = <<>>
    /\ UNCHANGED <<invoked, scope, pdf, doc, deckVars, docImages, blobs, runs, chunks, imgVars, facts, raised,
                   outline, annotations, tally, llmIssued, gateway>>

\* Lines 282-287: any error of build_outline becomes a PipelineError.
Outline ==
    /\ pc = "outline"
    /\ \E attempts \in OutlineAttemptSeqs(Len(merged_facts)) :
         LET call == build_outline(Len(merged_facts), attempts)
             r == call.res
         IN IF ~r.ok
            THEN /\ Raise(job, PipelineError("LLM_OUTPUT_INVALID", <<"Outline generation failed:">> \o r.exc.msg))
                 /\ outline' = outline
                 /\ gateway' = [gateway EXCEPT !.outline_attempts = call.calls]
            ELSE /\ outline' = r.outline
                 /\ gateway' = gateway
                 /\ job' = _set_job(job, NoneVal, Checkpoint("outline"))
                 /\ doc' = doc
                 /\ raised' = raised
                 /\ pc' = "annotate"
    /\ llmIssued' = TRUE
    /\ UNCHANGED <<invoked, scope, pdf, deckVars, docImages, blobs, runs, chunks, imgVars,
                   futures, completed, collected, facts, errors, merged_facts, annotations, tally>>

\* Lines 289-299.
Annotate ==
    /\ pc = "annotate"
    /\ \E a \in AnnotationAttempts(Len(SubsectionsOf(outline))) :
         /\ annotations' = write_annotations(Len(SubsectionsOf(outline)), a)
         /\ gateway' = IF a.t = "err"
                       THEN [gateway EXCEPT !.annotation_attempts = AnnotationTries,
                                            !.annotation_exc = AttemptError(a.kind, 0)]
                       ELSE gateway
    /\ job' = _set_job(job, NoneVal, Checkpoint("annotate"))
    /\ pc' = "delete"
    /\ llmIssued' = TRUE
    /\ UNCHANGED <<invoked, scope, pdf, doc, deckVars, docImages, blobs, runs, chunks, imgVars, poolVars,
                   merged_facts, outline, tally>>

\* Lines 302-304: two bulk deletes, by document_id, and a commit.  A bulk
\* Query.delete() removes the rows of its own table only: it runs no ORM
\* cascade, and the foreign keys declare no ON DELETE action.
PersistDelete ==
    /\ pc = "delete"
    /\ sections' = {r \in sections : r.document_id # DocId}
    /\ spans' = {r \in spans : r.document_id # DocId}
    /\ pc' = "insert"
    /\ UNCHANGED <<invoked, scope, pdf, job, doc, subsections, bullets, cits, docImages, blobs, runs, chunks,
                   imgVars, poolVars, lateVars, llmIssued, gateway>>

\* Lines 306-401.
PersistInsert ==
    /\ pc = "insert"
    /\ LET f2c == fact_to_chunk(facts, chunks)
           newBullets == BulletRows(runs, outline, merged_facts)
           newSpans == SpanRows(runs, outline, merged_facts, f2c)
       IN /\ sections' = sections \cup SectionRows(runs, outline)
          /\ subsections' = subsections \cup SubsectionRows(runs, outline, annotations)
          /\ bullets' = bullets \cup newBullets
          /\ spans' = spans \cup newSpans
          /\ cits' = cits \cup CitationRows(runs, newSpans)
          /\ tally' = [all_bullets |-> Cardinality(newBullets),
                       cited_bullets |-> Cardinality(newSpans),
                       used_fact_ids |-> {b.fact_id : b \in newBullets}]
    /\ job' = _set_job(job, NoneVal, Checkpoint("persist"))
    /\ pc' = "gate"
    /\ UNCHANGED <<invoked, scope, pdf, doc, docImages, blobs, runs, chunks, imgVars, poolVars,
                   merged_facts, outline, annotations, llmIssued, gateway>>

\* Lines 403-420.
Gate ==
    /\ pc = "gate"
    /\ LET e == QualityGate(tally, merged_facts)
       IN IF e # NoExc THEN Raise(job, e)
          ELSE /\ job' = _set_job([job EXCEPT !.metrics = Metrics(tally, merged_facts, facts)],
                                  "done", Checkpoint("done"))
               /\ doc' = [doc EXCEPT !.status = "ready"]
               /\ raised' = raised
               /\ pc' = "return"
    /\ UNCHANGED <<invoked, scope, pdf, deckVars, docImages, blobs, runs, chunks, imgVars,
                   futures, completed, collected, facts, errors, lateVars, llmIssued, gateway>>

\* run returns to process_document, which closes the session: the locals of
\* the run are gone.
Return ==
    /\ pc = "return"
    /\ pc' = "idle"
    /\ chunks' = <<>> /\ images' = <<>> /\ imgResults' = <<>> /\ doc_images' = <<>>
    /\ futures' = <<>> /\ completed' = <<>> /\ collected' = 0
    /\ facts' = <<>> /\ errors' = <<>> /\ raised' = NoExc
    /\ merged_facts' = <<>> /\ outline' = <<>> /\ annotations' = <<>> /\ tally' = NoTally
    /\ llmIssued' = FALSE /\ gateway' = NoGateway
    /\ UNCHANGED <<invoked, scope, pdf, dbVars, blobs, runs>>

Next ==
    \/ ProcessDocument
    \/ SetRunning
    \/ MarkProcessing
    \/ Parse
    \/ Language
    \/ \E i \in 1..(MaxImages + MaxPoolImages) : ImageWorker(i)
    \/ ImagesDone
    \/ BuildFormulaFacts
    \/ \E c \in 1..MaxChunks : ExtractWorker(c)
    \/ ExtractCollect
    \/ ExtractAbort
    \/ ExtractJoin
    \/ Dedupe
    \/ Outline
    \/ Annotate
    \/ PersistDelete
    \/ PersistInsert
    \/ Gate
    \/ Return

Spec == Init /\ [][Next]_vars
RerunSpec == RerunInit /\ [][Next]_vars
ImageSpec == ImageInit /\ [][Next]_vars
DedupeSpec == DedupeInit /\ [][Next]_vars
SnippetSpec == SnippetInit /\ [][Next]_vars

\* The threads of a run keep running: the orchestrator and the pool threads
\* are scheduled until run returns.  Nothing obliges a caller to invoke
\* process_document again.
RunStep ==
    \/ SetRunning \/ MarkProcessing \/ Parse \/ Language
    \/ \E i \in 1..(MaxImages + MaxPoolImages) : ImageWorker(i)
    \/ ImagesDone \/ BuildFormulaFacts
    \/ \E c \in 1..MaxChunks : ExtractWorker(c)
    \/ ExtractCollect \/ ExtractAbort \/ ExtractJoin \/ Dedupe \/ Outline \/ Annotate
    \/ PersistDelete \/ PersistInsert \/ Gate \/ Return

LiveSpec == Init /\ [][Next]_vars /\ WF_vars(RunStep)

\* ---- functions called on their own ----
runVars == <<scope, pdf, job, doc, sections, subsections, bullets, spans, cits, docImages,
             blobs, runs, pc, chunks, images, imgResults, doc_images, futures, completed,
             collected, facts, errors, raised, merged_facts, outline, annotations, tally, llmIssued, gateway>>

Pending(fn, args) == [fn |-> fn, args |-> args, state |-> "pending", ret |-> <<>>]
Returns(c, value) == [c EXCEPT !.state = "returned", !.ret = value]
Raises(c, exc) == [c EXCEPT !.state = "raised", !.ret = exc]

MockOutlineCalls == {Pending("_mock_outline", n) : n \in 0..MaxMockFacts}

\* Paragraphs of one word, of 520, 650 and 1199 estimated tokens, and one of
\* 1300, more than a chunk holds; pages in reading order.
ParagraphWords == {1, 400, 500, 923, 1000}
ParagraphLists ==
    UNION {{ps \in [1..n -> [page : 1..2, words : ParagraphWords]] :
               \A i \in 1..(n - 1) : ps[i].page <= ps[i + 1].page} : n \in 1..MaxParagraphs}
ChunkerCalls == {Pending("_chunk_paragraphs", ps) : ps \in ParagraphLists}
\* Statements a provider may give: none, empty, blank, short ones, one of
\* exactly StatementMinLen characters, an integer, long ones (one of them with
\* a long run of blanks inside).
RawStatements ==
    {JNone, JStr(<<>>), JStr(Rep(" ", 3)), JStr(<<"a", "b", "c">>), JStr(<<" ">> \o <<"a", " ", "f", "a", "c", "t", ".">> \o <<" ", "\n">>),
     JStr(Rep("x", StatementMinLen)), JInt(0), JInt(1234),
     JStr(Rep("x", StatementMaxLen)), JStr(Spaced("x", StatementMaxLen + 5)),
     JStr(<<"a", "b", "c">> \o Rep(" ", StatementMaxLen) \o <<"z">>)}
\* The keys fact_type and type.
RawTypes ==
    {<<JNone, JNone>>, <<JStr(<<"m", "e", "t", "h", "o", "d">>), JNone>>, <<JStr(<<"M", "E", "T", "H", "O", "D">>), JNone>>,
     <<JNone, JStr(<<"R", "e", "s", "u", "l", "t">>)>>, <<JStr(<<"o", "p", "i", "n", "i", "o", "n">>), JStr(<<"f", "o", "r", "m", "u", "l", "a">>)>>, <<JStr(<<>>), JStr(<<"l", "i", "m", "i", "t", "a", "t", "i", "o", "n">>)>>}
RawImportances ==
    {[k |-> "missing"], JNone, JList, JNum(0 - 50), JNum(0), JNum(70), JNum(100), JNum(150), JInt(1),
     [k |-> "str", v |-> 70, numeric |-> TRUE], [k |-> "str", v |-> 0, numeric |-> FALSE]}
RawItems ==
    {[statement |-> st, fact_type |-> ty[1], type |-> ty[2], importance |-> imp] :
        st \in RawStatements, ty \in RawTypes, imp \in RawImportances}
PlainRawItem ==
    [statement |-> JStr(Rep("x", StatementMinLen)), fact_type |-> JStr(<<"m", "e", "t", "h", "o", "d">>), type |-> JNone,
     importance |-> JNum(70)]
NotAnObject == [junk |-> TRUE]
\* The value of the key "facts": one item of any kind, lists of up to
\* MaxPayloadItems plain items, a list with an item that is no object.
Payloads ==
    {<<it>> : it \in RawItems}
    \cup {[i \in 1..n |-> PlainRawItem] : n \in 0..MaxPayloadItems}
    \cup {<<NotAnObject>>, <<NotAnObject, PlainRawItem>>}
ExtractCalls == {Pending("extract_facts", pl) : pl \in Payloads}
UnitCalls == MockOutlineCalls \cup ChunkerCalls \cup ExtractCalls

\* No run is in progress: the document waits with its queued job.
UnitInit == scope = "unit" /\ StoreInit /\ ~pdf.valid /\ RunLocalsInit /\ invoked \in UnitCalls

\* build_outline with provider "mock" (llm.py:308-309).
MockOutline ==
    /\ invoked.fn = "_mock_outline" /\ invoked.state = "pending"
    /\ LET r == _mock_outline(invoked.args)
       IN invoked' = IF r.ok THEN Returns(invoked, r.outline) ELSE Raises(invoked, r.exc)
    /\ UNCHANGED runVars

\* parse_pdf_bytes, line 161: the paragraph rows of the pages are chunked.
ChunkParagraphs ==
    /\ invoked.fn = "_chunk_paragraphs" /\ invoked.state = "pending"
    /\ invoked' = Returns(invoked, _chunk_paragraphs(invoked.args, ChunkSizeTokens))
    /\ UNCHANGED runVars

\* parse_pdf_bytes, lines 163-180: the chunk rows get their ids and spans.
\* args keeps the paragraphs, ret.rows the chunker's rows.
AssembleParsedChunks ==
    /\ invoked.fn = "_chunk_paragraphs" /\ invoked.state = "returned"
    /\ invoked' = [fn |-> "parse_pdf_bytes", args |-> invoked.args, state |-> "returned",
                   ret |-> [rows |-> invoked.ret, chunks |-> AssembleChunks(invoked.ret)]]
    /\ UNCHANGED runVars

\* extract_facts in non-mock mode (llm.py:280-305), called on chunk 1.
ExtractFacts ==
    /\ invoked.fn = "extract_facts" /\ invoked.state = "pending"
    /\ LET r == extract_facts_payload(1, invoked.args).res
       IN invoked' = IF r.ok THEN Returns(invoked, r.facts) ELSE Raises(invoked, r.exc)
    /\ UNCHANGED runVars

UnitNext ==
    \/ MockOutline
    \/ ChunkParagraphs
    \/ AssembleParsedChunks
    \/ ExtractFacts

UnitSpec == UnitInit /\ [][UnitNext]_vars

\* ---- properties ----
DeckTables == <<sections, subsections, bullets, spans, cits>>
RowsOfRun(r) ==
    {x \in sections \cup subsections \cup bullets \cup spans \cup cits : x.run = r}
Terminal == job.status \in {"done", "failed"}

\* C1: every invocation of run returns with the job committed done or failed;
\* once run has returned the job is never queued or running.
C1_RunEndsTerminal ==
    /\ [](pc = "start" => <>(pc = "idle" /\ Terminal))
    /\ [](pc \in {"return", "idle"} /\ runs > 0 => Terminal)
C1_Witness == pc = "idle" /\ runs = 1 /\ job.status = "failed" /\ job.error_code = "GEN_TIMEOUT"

\* C2: in every committed state a failed job has an error_code and its
\* document is failed, on the failure paths of run and of process_document.
C2_FailedJobFailedDocument ==
    job.status = "failed" => job.error_code # NoneVal /\ doc.status = "failed"

\* C3: within a run the committed progress never decreases (the first write
\* of a run, line 200, starts its sequence); a job becomes done only with
\* progress 100, and becomes failed with the progress last committed.
C3_ProgressMonotone ==
    [][/\ pc # "start" => job'.progress >= job.progress
       /\ job'.status = "done" => job'.progress = 100
       /\ (job'.status = "failed" /\ job.status # "failed") => job'.progress = job.progress
       /\ pc' = "return" => job'.status \in {"done", "failed"}]_vars
C3_Witness == runs = 2 /\ pc = "return" /\ job.status = "failed" /\ job.progress = 50

\* C4: when the job is done, every bullet has a citation and the recorded
\* citation_completeness is 100 (1.0).
C4_EveryBulletCited ==
    job.status = "done" =>
        /\ \A b \in bullets : \E c \in cits : c.bullet_id = b.id
        /\ job.metrics.citation_completeness = 100
C4_Witness == job.status = "done" /\ Cardinality(bullets) >= 3 /\ Cardinality(subsections) = 2

\* C5: after a successful run every index of merged_facts appears in exactly
\* one place of the persisted outline: once, not more.
C5_EachFactExactlyOnce ==
    (pc = "return" /\ job.status = "done") =>
        \A k \in 1..Len(merged_facts) :
            Cardinality({b \in bullets : b.run = runs /\ b.fact_id = merged_facts[k].fact_id}) = 1

\* C6: after two runs nothing the first run wrote remains, and every
\* citation references an existing bullet and an existing span.
C6_SecondRunReplacesDeck ==
    (runs = 2 /\ pc = "return" /\ job.status = "done") =>
        /\ RowsOfRun(1) = {}
        /\ \A c \in cits : /\ \E b \in bullets : b.id = c.bullet_id
                           /\ \E sp \in spans : sp.id = c.source_span_id

NothingDoneYet ==
    /\ {k \in blobs : k[1] = runs} = {}
    /\ ~llmIssued
    /\ {r \in docImages : r.run = runs} = {}
    /\ RowsOfRun(runs) = {}
    /\ doc.pages = NoInt

\* C8 as stated: every PDF with more than MaxPages pages fails with
\* DOC_TOO_LARGE, nothing having been uploaded, requested or written.
C8_Original ==
    (pdf.pages > MaxPages /\ pc = "return") =>
        job.status = "failed" /\ job.error_code = "DOC_TOO_LARGE" /\ NothingDoneYet

\* C8, amended: every PDF that parse_pdf_bytes accepts and that has more
\* than MaxPages pages fails with DOC_TOO_LARGE; during its run nothing is
\* uploaded, requested of the LLM or written, and document.pages stays unset.
C8_Oversize ==
    (parse_pdf_bytes(pdf, runs).ok /\ pdf.pages > MaxPages) =>
        /\ NothingDoneYet
        /\ pc = "return" => job.status = "failed" /\ job.error_code = "DOC_TOO_LARGE"
        /\ pc \notin {"language", "images", "formulas", "extract", "extract_abort", "dedupe", "outline",
                      "annotate", "delete", "insert", "gate"}
C8_Witness ==
    pc = "return" /\ pdf.pages = MaxPages + 1 /\ job.error_code = "DOC_TOO_LARGE" /\ pdf.nImages > 0

AllExtractionsFailed ==
    /\ futures # <<>>
    /\ \A c \in 1..Len(futures) : futures[c].state = "done" /\ ~futures[c].ok

\* C9: when the extraction of every chunk has failed, of whatever kind the
\* failures are, the job fails with LLM_OUTPUT_INVALID and the detail is the
\* first error collected.
C9_AllChunksFailed ==
    (pc = "return" /\ AllExtractionsFailed) =>
        /\ job.status = "failed"
        /\ job.error_code = "LLM_OUTPUT_INVALID"
        /\ job.error_detail = futures[completed[1]].exc.msg

\* C10: when some chunk yields facts, no failure of another chunk fails the
\* job in stage S4: the run gets past S4, and enters dedupe with the facts of
\* every chunk whose extraction succeeded.
C10_PartialFailureTolerated ==
    /\ (pc = "return" /\ \E c \in 1..Len(futures) : futures[c].ok)
          => job.progress >= Checkpoint("extract")
    /\ pc = "dedupe" =>
          \A c \in 1..Len(futures) : futures[c].ok =>
              \A k \in 1..Len(futures[c].facts) : futures[c].facts[k] \in Range(facts)

\* The DocumentImage row that the current run wrote for image i, if any.
ImageRowsOf(i) == {r \in docImages : r.run = runs /\ r.storage_key = images[i].image_id}
RowIffUploaded ==
    \A i \in 1..Len(imgResults) :
        /\ (ImageRowsOf(i) # {}) <=> imgResults[i].upload_ok
        /\ imgResults[i].upload_ok <=> images[i].image_id \in blobs

\* C11: once image ingestion has committed, an image has a DocumentImage row
\* if and only if its upload succeeded; and when the upload of some image has
\* failed the run still goes on to fact extraction.
C11_ImageIngestion ==
    [][/\ (pc = "images" /\ pc' # "images") => RowIffUploaded'
       /\ (pc = "formulas" /\ \E i \in 1..Len(imgResults) : ~imgResults[i].upload_ok)
             => pc' = "extract"]_vars

FormulaImages == {k \in 1..Len(doc_images) : doc_images[k].is_formula}

\* C12: when an image was uploaded and the detector returned LaTeX for it,
\* the run fails only if an LLM call failed, and a run that ends done has
\* persisted a bullet that references the image and is cited by a span with
\* paragraph_index 0 and the formula marker of the image's page.
C12_FormulaBullet ==
    (pc = "return" /\ FormulaImages # {}) =>
        /\ job.status = "failed" => llmIssued
        /\ job.status = "done" =>
              \A k \in FormulaImages :
                 \E b \in bullets, c \in cits, sp \in spans :
                    /\ b.run = runs /\ b.image_id = doc_images[k].id
                    /\ c.bullet_id = b.id /\ c.source_span_id = sp.id
                    /\ sp.paragraph_index = 0 /\ sp.page = doc_images[k].page
                    /\ sp.quote_snippet = "[Formula image on page P]"

\* C13: an exception that leaves the try block of run fails the job and the
\* document; a PipelineError gives its code, any other error the code of
\* its message's prefix, GEN_TIMEOUT when it has neither LLM prefix.
C13_Classification ==
    (pc = "return" /\ raised # NoExc) =>
        /\ job.status = "failed" /\ doc.status = "failed"
        /\ raised.type = "PipelineError" => job.error_code = raised.code
        /\ raised.type # "PipelineError" =>
              job.error_code =
                 (IF raised.msg # <<>> /\ raised.msg[1] \in {"LLM_API_ERROR", "LLM_OUTPUT_INVALID"}
                  THEN raised.msg[1] ELSE "GEN_TIMEOUT")
C13_Witness ==
    /\ pc = "return" /\ raised.type = "Other" /\ raised.msg[1] = "ConnectError"
    /\ job.error_code = "GEN_TIMEOUT" /\ doc.status = "failed"

DocumentEdges == {<<"uploaded", "processing">>, <<"processing", "ready">>, <<"processing", "failed">>}
JobEdges == {<<"queued", "running">>, <<"running", "done">>, <<"running", "failed">>}

\* C14: every step of run changes the document's status only along
\* uploaded -> processing -> (ready | failed) and the job's status only along
\* queued -> running -> (done | failed), in the first run and in later ones.
C14_StatusTransitions ==
    [][pc # "idle" =>
          /\ doc'.status = doc.status \/ <<doc.status, doc'.status>> \in DocumentEdges
          /\ job'.status = job.status \/ <<job.status, job'.status>> \in JobEdges]_vars

\* C15: no task of the image pool or of the extraction pool touches the
\* session or an object bound to it.
C15_WorkersOffSession ==
    /\ \A i \in 1..Len(imgResults) : imgResults[i].session_reads = {}
    /\ \A c \in 1..Len(futures) : futures[c].session_reads = {}

Dense(rows) == {r.sort_index : r \in rows} = 0..(Cardinality(rows) - 1)

\* C16: after a successful run the sort_index values of the document's
\* sections, of each section's subsections and of each subsection's bullets
\* are exactly 0..k-1 for k children.
C16_SortIndexDense ==
    (pc = "return" /\ job.status = "done") =>
        /\ Dense({r \in sections : r.document_id = DocId})
        /\ \A sec \in sections : Dense({r \in subsections : r.section_id = sec.id})
        /\ \A sub \in subsections : Dense({r \in bullets : r.subsection_id = sub.id})
C16_Witness ==
    /\ pc = "return" /\ job.status = "done" /\ Cardinality(sections) = 2
    /\ \E sub \in subsections : Cardinality({r \in bullets : r.subsection_id = sub.id}) = 2

\* Distinct fact ids among the bullets the current run persisted.
PersistedFactIds == {b.fact_id : b \in {x \in bullets : x.run = runs}}

\* C17: a done job has a ready document and the three metrics, its
\* coverage_ratio at least the threshold and equal to the share of merged
\* facts that were persisted; a run whose coverage is below the threshold
\* ends failed with QUALITY_GATE_FAILED.
C17_GateCoverage ==
    /\ job.status = "done" =>
          /\ doc.status = "ready"
          /\ job.metrics.coverage_ratio >= QualityCoverageThresholdPct
          /\ job.metrics.citation_completeness >= 0 /\ job.metrics.dedupe_ratio >= 0
    /\ (pc = "return" /\ job.status = "done") =>
          /\ Cardinality(PersistedFactIds) * 100 >= QualityCoverageThresholdPct * Len(merged_facts)
          /\ job.metrics.coverage_ratio = (Cardinality(PersistedFactIds) * 100) \div Len(merged_facts)
    /\ (pc = "return" /\ tally # NoTally
          /\ Cardinality(PersistedFactIds) * 100 < QualityCoverageThresholdPct * Len(merged_facts))
          => job.status = "failed" /\ job.error_code = "QUALITY_GATE_FAILED"
C17_Witness ==
    /\ pc = "return" /\ job.status = "done" /\ doc.status = "ready"
    /\ Len(merged_facts) = 2 /\ job.metrics.coverage_ratio = 100 /\ job.metrics.dedupe_ratio = 0

\* C18: deduplicating the deduplicated list changes nothing.
C18_DedupeIdempotent ==
    pc = "outline" =>
        _fuzzy_dedupe(merged_facts, DedupeThresholdPct) = merged_facts

RECURSIVE IsSubsequence(_, _)
IsSubsequence(a, b) ==
    IF a = <<>> THEN TRUE
    ELSE IF b = <<>> THEN FALSE
    ELSE IF Head(a) = Head(b) THEN IsSubsequence(Tail(a), Tail(b))
    ELSE IsSubsequence(a, Tail(b))

\* Two statements that the deduper takes for duplicates.
Near(a, b) ==
    /\ Min(StmtLen(a), StmtLen(b)) * 100 >= DedupeThresholdPct * Max(StmtLen(a), StmtLen(b))
    /\ TokenSortRatio(a, b) >= DedupeThresholdPct

\* The kept list after the first k facts of xs.
KeptAfter(xs, k) == _fuzzy_dedupe(SubSeq(xs, 1, k), DedupeThresholdPct)
DupSlots(K, f) == {i \in 1..Len(K) : Near(K[i].stmt, f.stmt)}

\* Some fact of xs replaced the kept entry it duplicates.
Replaced(xs) ==
    \E k \in 1..Len(xs) :
        \E i \in DupSlots(KeptAfter(xs, k - 1), xs[k]) :
            /\ \A j \in DupSlots(KeptAfter(xs, k - 1), xs[k]) : i <= j
            /\ xs[k].importance > KeptAfter(xs, k - 1)[i].importance

\* C19 as stated: the output is a subsequence of the input, replacements
\* included.
C19_Original ==
    pc = "outline" => IsSubsequence(merged_facts, facts)

\* C19, amended: the output holds facts of the input, each at most once, and
\* is a subsequence of the input whenever no duplicate replaced a kept entry.
C19_OrderKept ==
    pc = "outline" =>
        /\ \A i \in 1..Len(merged_facts) : \E k \in 1..Len(facts) : facts[k] = merged_facts[i]
        /\ \A i, j \in 1..Len(merged_facts) : merged_facts[i] = merged_facts[j] => i = j
        /\ ~Replaced(facts) => IsSubsequence(merged_facts, facts)
C19_Witness ==
    /\ pc = "outline" /\ Len(facts) = 3 /\ Len(merged_facts) = 2 /\ ~Replaced(facts)
    /\ merged_facts = <<facts[1], facts[3]>>

\* The facts that differ only in the slot the incoming fact duplicates.
SlotHoldsGreater(K, R, f) ==
    \E i \in DupSlots(K, f) :
        /\ \A j \in DupSlots(K, f) : i <= j
        /\ R[i] = IF f.importance > K[i].importance THEN f ELSE K[i]
        /\ \A j \in 1..Len(K) : j # i => R[j] = K[j]

\* C20: an incoming duplicate adds no entry and leaves in the kept slot the
\* fact of strictly greater importance, the earlier one on a tie; two
\* near-duplicate facts merge into the one of higher importance.
C20_DuplicateMerge ==
    pc = "outline" =>
        /\ \A k \in 1..Len(facts) :
              DupSlots(KeptAfter(facts, k - 1), facts[k]) # {} =>
                  /\ Len(KeptAfter(facts, k)) = Len(KeptAfter(facts, k - 1))
                  /\ SlotHoldsGreater(KeptAfter(facts, k - 1), KeptAfter(facts, k), facts[k])
        /\ (Len(facts) = 2 /\ Near(facts[1].stmt, facts[2].stmt)) =>
              merged_facts =
                  << IF facts[2].importance > facts[1].importance THEN facts[2] ELSE facts[1] >>
C20_Witness ==
    /\ pc = "outline" /\ Len(facts) = 2 /\ Near(facts[1].stmt, facts[2].stmt)
    /\ facts[1].stmt # facts[2].stmt
    /\ facts[2].importance > facts[1].importance
    /\ merged_facts = <<facts[2]>>

\* The chunk and the statement that a span of the current run was cut from.
SpanInputs ==
    {<<sp, StmtText(b.text), c.text>> : <<sp, b, c>> \in
        {t \in spans \X bullets \X Range(chunks) :
            /\ t[1].run = runs /\ t[2].run = runs
            /\ \E ci \in cits : ci.bullet_id = t[2].id /\ ci.source_span_id = t[1].id
            /\ t[1].char_start = t[3].char_start /\ t[1].paragraph_index = t[3].paragraph_index}}
SnippetLens == {0, 1, 7, 50, SnippetMaxLen, SnippetMaxLen + 60}

\* C21: the snippet is at most max_len characters long and is a contiguous
\* part of the chunk's text, for the snippet stored with a span and for
\* every other max_len.
C21_SnippetBound ==
    pc = "gate" =>
        \A t \in SpanInputs :
            /\ Len(t[1].quote_snippet) <= SnippetMaxLen /\ Contains(t[3], t[1].quote_snippet)
            /\ \A m \in SnippetLens :
                  /\ Len(_find_best_snippet(t[2], t[3], m)) <= m
                  /\ Contains(t[3], _find_best_snippet(t[2], t[3], m))
C21_Witness ==
    /\ pc = "gate"
    /\ \E t \in SpanInputs :
          /\ Len(t[3]) > SnippetMaxLen
          /\ t[1].quote_snippet # Slice(t[3], 0, SnippetMaxLen)
          /\ Len(t[1].quote_snippet) < SnippetMaxLen
          /\ Contains(Lower(t[1].quote_snippet), <<"a", "b", "c", "d">>)

AnnotationsFailed == gateway.annotation_exc # NoExc

\* C22: a failure of write_annotations does not fail the job: the call
\* returns empty strings, the run goes on, every subsection is persisted
\* with an empty annotation and the job ends done.
C22_AnnotationFailureAbsorbed ==
    AnnotationsFailed =>
        /\ pc \in {"delete", "insert", "gate", "return"}
        /\ Len(annotations) = Len(SubsectionsOf(outline))
        /\ \A k \in 1..Len(annotations) : annotations[k] = ""
        /\ pc \in {"delete", "insert", "gate"} => job.status = "running" /\ raised = NoExc
        /\ pc \in {"gate", "return"} =>
              /\ Cardinality({r \in subsections : r.run = runs}) = Len(SubsectionsOf(outline))
              /\ \A r \in subsections : r.run = runs => r.annotation = ""
        /\ pc = "return" => job.status = "done" /\ doc.status = "ready"
C22_Witness ==
    /\ pc = "return" /\ job.status = "done"
    /\ gateway.annotation_exc.type = "Other"
    /\ Cardinality({r \in subsections : r.run = runs /\ r.annotation = ""}) = 2

\* C23: a gateway operation gives up only after LLMMaxRetries + 1 failed
\* attempts: extract_facts, build_outline and write_annotations.
C23_RetriesBeforeGivingUp ==
    /\ \A c \in 1..Len(futures) :
          (futures[c].state = "done" /\ ~futures[c].ok) => futures[c].gave_up_after = LLMMaxRetries + 1
    /\ gateway.outline_attempts \in {0, LLMMaxRetries + 1}
    /\ AnnotationsFailed => gateway.annotation_attempts = LLMMaxRetries + 1

\* C24: no committed write of the job lowers its progress, in a second run
\* of the pipeline on the same job either.
C24_ProgressNeverDecreases == [][job'.progress >= job.progress]_vars

\* C25: once the document has a deck, every committed state shows a deck:
\* the previous run's or the new one.
C25_DeckReplacedAtomically ==
    [][/\ sections # {} => sections' # {}
       /\ spans # {} => spans' # {}]_vars

BeforeS8 == {"start", "processing", "parse", "language", "images", "formulas",
             "extract", "extract_abort", "dedupe", "outline"}
FailsHere == pc \in BeforeS8 /\ pc' = "return" /\ job'.status = "failed"

\* C26: a failed run leaves the progress of its last completed stage: 0.05
\* for PARSE_FAILED and DOC_TOO_LARGE, 0.25 when every extraction failed,
\* 0.50 when the outline failed, 0.90 for the errors of the gate.
C26_ProgressAtFailure ==
    (pc = "return" /\ job.status = "failed") =>
        /\ job.error_code \in {"PARSE_FAILED", "DOC_TOO_LARGE"} => job.progress = 5
        /\ (job.error_code = "LLM_OUTPUT_INVALID" /\ gateway.outline_attempts = 0) => job.progress = 25
        /\ (job.error_code = "LLM_OUTPUT_INVALID" /\ gateway.outline_attempts # 0) => job.progress = 50
        /\ job.error_code \in {"CITATION_INCOMPLETE", "QUALITY_GATE_FAILED"} => job.progress = 90
C26_Witness ==
    /\ runs = 2 /\ pc = "return" /\ job.status = "failed" /\ sections # {}
    /\ job.error_code = "LLM_OUTPUT_INVALID" /\ gateway.outline_attempts # 0 /\ job.progress = 50

\* C27: no job has error_code LLM_API_ERROR: a non-2xx answer during the
\* extraction or the outline ends as LLM_OUTPUT_INVALID, one during the
\* annotations fails nothing.
C27_NoApiErrorCode ==
    /\ job.error_code # "LLM_API_ERROR"
    /\ (pc = "return" /\ (StartsWith(raised.msg, "LLM_API_ERROR")
                            \/ /\ StartsWith(raised.msg, "Outline generation failed:")
                               /\ raised.msg[2] = "LLM_API_ERROR"))
          => job.error_code = "LLM_OUTPUT_INVALID"
    /\ StartsWith(gateway.annotation_exc.msg, "LLM_API_ERROR") => job.status \in {"running", "done"}
C27_Witness ==
    /\ pc = "return" /\ job.error_code = "LLM_OUTPUT_INVALID"
    /\ StartsWith(job.error_detail, "LLM_API_ERROR")
    /\ \A c \in 1..Len(futures) : StartsWith(futures[c].exc.msg, "LLM_API_ERROR")

\* C28: when the gate is evaluated every merged fact is the fact of a
\* bullet and every bullet has a source span; no job has the error code of
\* the gate.
C28_GateAlwaysPasses ==
    /\ pc = "gate" =>
          /\ merged_facts # <<>>
          /\ \A i, j \in 1..Len(merged_facts) : merged_facts[i].fact_id = merged_facts[j].fact_id => i = j
          /\ tally.used_fact_ids = {merged_facts[i].fact_id : i \in 1..Len(merged_facts)}
          /\ tally.all_bullets > 0 /\ tally.cited_bullets = tally.all_bullets
          /\ QualityGate(tally, merged_facts) = NoExc
    /\ job.error_code \notin {"CITATION_INCOMPLETE", "QUALITY_GATE_FAILED"}
C28_Witness ==
    /\ pc = "gate" /\ Len(merged_facts) = 2 /\ tally.all_bullets = 3
    /\ Cardinality(tally.used_fact_ids) = 2

\* C29 as stated: a run that fails before stage S8 (parse, page limit,
\* extraction or outline) after a run that wrote a deck leaves the deck rows
\* as they were and adds no row of another table.
C29_Original ==
    [][/\ pc \in BeforeS8 => UNCHANGED deckVars
       /\ (FailsHere /\ sections # {}
             /\ job'.error_code \in {"PARSE_FAILED", "DOC_TOO_LARGE", "LLM_OUTPUT_INVALID"})
             => {r \in docImages' : r.run = runs'} = {}]_vars

\* C29, amended: no step before stage S8 changes a deck row, and the step
\* that fails the run changes the status and the error fields of the job and
\* the status of the document only.
C29_DeckUntouched ==
    [][/\ pc \in BeforeS8 => UNCHANGED deckVars
       /\ FailsHere =>
             /\ job' = [job EXCEPT !.status = "failed", !.error_code = job'.error_code,
                                   !.error_detail = job'.error_detail]
             /\ doc' = [doc EXCEPT !.status = "failed"]
             /\ UNCHANGED <<docImages, blobs>>]_vars
C29_Witness ==
    /\ runs = 2 /\ pc = "return" /\ job.status = "failed" /\ doc.pages = MaxPages
    /\ sections # {} /\ \A x \in sections \cup subsections \cup bullets \cup spans \cup cits : x.run = 1
    /\ \E r \in docImages : r.run = 2

\* C30: no task of a pool is running once the orchestrator has left the
\* stage of the pool: an extraction task runs to its end also when another
\* one has failed, before the next stage and before the job is failed.
C30_PoolsJoined ==
    /\ pc # "images" => Drained(imgResults)
    /\ pc \notin {"extract", "extract_abort"} => Drained(futures)
    /\ pc \in {"dedupe", "return"} => Len(completed) = Len(futures)
C30_Witness ==
    /\ pc = "return" /\ job.status = "failed" /\ Len(futures) = 2
    /\ futures[completed[1]].exc.type = "Other" /\ futures[completed[2]].ok

\* The stage a run is in, by the progress committed before it starts.
StageProgress ==
    [p \in {"processing", "parse"} |-> 5] @@ [p \in {"language"} |-> 15] @@ [p \in {"images"} |-> 20]
    @@ [p \in {"formulas", "extract", "extract_abort"} |-> 25] @@ [p \in {"dedupe"} |-> 35]
    @@ [p \in {"outline"} |-> 50] @@ [p \in {"annotate"} |-> 65] @@ [p \in {"delete", "insert"} |-> 75]
    @@ [p \in {"gate"} |-> 90]
StageEdges ==
    {<<"start", "processing">>, <<"processing", "parse">>, <<"parse", "language">>,
     <<"language", "images">>, <<"images", "formulas">>, <<"formulas", "extract">>,
     <<"extract", "extract_abort">>, <<"extract", "dedupe">>, <<"dedupe", "outline">>,
     <<"outline", "annotate">>, <<"annotate", "delete">>, <<"delete", "insert">>,
     <<"insert", "gate">>}

\* C31: the stages of a run follow one another in the fixed order, each
\* starting with the checkpoint of the one before it committed: extraction
\* requests only after the image rows are committed (0.25), the outline request
\* only after every extraction task has finished (0.50 committed), the deck
\* rows deleted and inserted only after write_annotations returned (0.75).
C31_StageOrder ==
    [][/\ (pc' # pc /\ pc' \notin {"return", "idle", "start"}) => <<pc, pc'>> \in StageEdges
       /\ pc \in DOMAIN StageProgress => job.progress = StageProgress[pc]
       /\ futures' # futures /\ pc' = pc
            => pc \in {"extract", "extract_abort"} /\ job.progress = 25 /\ Drained(imgResults)
       /\ pc' = "dedupe" => Drained(futures) /\ collected = Len(chunks)
       /\ pc = "outline" /\ llmIssued' => job.progress = 50 /\ futures = <<>>
       /\ DeckTables' # DeckTables
            => /\ pc \in {"delete", "insert"} /\ job.progress = 75
               /\ Len(annotations) = Len(SubsectionsOf(outline))]_vars
C31_Witness == pc = "gate" /\ job.progress = 90 /\ bullets # {} /\ Len(chunks) = 2

\* What a call of a retry loop has to give for the outcomes of its attempts:
\* the first accepted attempt and no call after it, or the last error after
\* LLMMaxRetries + 1 calls.
WithinBudget(results, call) ==
    LET oks == {i \in 1..(LLMMaxRetries + 1) : results[i].ok}
    IN /\ call.calls <= LLMMaxRetries + 1
       /\ oks # {} => /\ call.calls = CHOOSE i \in oks : \A j \in oks : i <= j
                      /\ call.res = results[call.calls]
       /\ oks = {} => /\ call.calls = LLMMaxRetries + 1
                      /\ ~call.res.ok /\ call.res.exc = results[LLMMaxRetries + 1].exc

\* C32: one call of extract_facts or of build_outline makes at most
\* LLMMaxRetries + 1 provider calls, returns at the first attempt that parses
\* and validates, and raises the last error only after LLMMaxRetries + 1
\* failed attempts.
C32_RetryBudget ==
    /\ (pc = "extract" /\ completed = <<>> /\ chunks # <<>>) =>
          \A attempts \in ExtractAttemptSeqs :
              WithinBudget([i \in 1..Len(attempts) |-> ExtractAttemptResult(chunks[1].chunk_id, attempts[i])],
                           extract_facts(chunks[1].chunk_id, attempts))
    /\ pc = "outline" =>
          \A attempts \in OutlineAttemptSeqs(Len(merged_facts)) :
              WithinBudget([i \in 1..Len(attempts) |-> OutlineAttemptResult(Len(merged_facts), attempts[i])],
                           build_outline(Len(merged_facts), attempts))
    /\ \A c \in 1..Len(futures) :
          futures[c].state = "done" => futures[c].gave_up_after \in {0, LLMMaxRetries + 1}
    /\ (pc = "return" /\ gateway.outline_attempts # 0) =>
          /\ gateway.outline_attempts = LLMMaxRetries + 1
          /\ job.error_code = "LLM_OUTPUT_INVALID"
C32_Witness ==
    /\ pc = "extract" /\ Len(futures) = 2 /\ collected = 2
    /\ futures[1].state = "done" /\ ~futures[1].ok /\ futures[1].gave_up_after = LLMMaxRetries + 1
    /\ futures[2].state = "done" /\ futures[2].ok

\* The document a bullet belongs to, through its subsection and section.
BulletDocuments(b) ==
    {sec.document_id : sec \in {x \in sections : \E ss \in subsections :
                                    ss.id = b.subsection_id /\ ss.section_id = x.id}}
\* The chunk a fact was extracted from: the one named by the fact's chunk_id.
SourceChunks(fact_id) ==
    {chunks[k] : k \in {j \in 1..Len(chunks) : \E i \in 1..Len(facts) :
                            facts[i].fact_id = fact_id /\ facts[i].chunk_id = chunks[j].chunk_id}}

\* C33: every citation a run persists links a bullet of the document to a
\* span of the same document, and the span of a bullet whose fact came from
\* a text chunk carries that chunk's page, paragraph_index, char_start and
\* char_end.
C33_CitationSameDocument ==
    pc \in {"gate", "return"} =>
        \A c \in {x \in cits : x.run = runs} :
            \E b \in bullets : \E sp \in spans :
                /\ b.id = c.bullet_id /\ sp.id = c.source_span_id
                /\ BulletDocuments(b) = {DocId} /\ sp.document_id = DocId
                /\ \A ch \in SourceChunks(b.fact_id) :
                      /\ sp.page = ch.page /\ sp.paragraph_index = ch.paragraph_index
                      /\ sp.char_start = ch.char_start /\ sp.char_end = ch.char_end
C33_Witness ==
    /\ pc = "gate" /\ Len(chunks) = 2
    /\ \E c1, c2 \in cits : \E s1, s2 \in spans :
          /\ s1.id = c1.source_span_id /\ s2.id = c2.source_span_id
          /\ s1.char_start = chunks[1].char_start /\ s2.char_start = chunks[2].char_start

\* s holds consecutive integers.
Consecutive(s) == \A j \in 1..(Len(s) - 1) : s[j + 1] = s[j] + 1

\* C34: in mock mode build_outline returns, for every number n >= 0 of
\* facts, sections of at most 2 subsections of at most 4 consecutive indices,
\* with each index 0..n-1 exactly once; it never raises.
C34_MockOutline ==
    (invoked.fn = "_mock_outline" /\ invoked.state # "pending") =>
        /\ invoked.state = "returned"
        /\ \A s \in 1..Len(invoked.ret) :
              /\ Len(invoked.ret[s]) <= 2
              /\ \A ss \in 1..Len(invoked.ret[s]) :
                    Len(invoked.ret[s][ss]) <= MockGroupSize /\ Consecutive(invoked.ret[s][ss])
        /\ AllIndices(invoked.ret) = [j \in 1..invoked.args |-> j - 1]

\* The place of a subsection row among the rows of its run, in section order
\* (from 1).
PositionOf(r) ==
    1 + Cardinality({x \in subsections : /\ x.run = r.run
                                          /\ \/ x.id[3] < r.id[3]
                                             \/ x.id[3] = r.id[3] /\ x.id[4] < r.id[4]})
\* What the provider gave for subsection_index k: the annotations of the
\* items with that index.
GivenFor(a, k) == {a.answer[i].annotation : i \in {j \in 1..Len(a.answer) : a.answer[j].subsection_index = k}}

\* C35: write_annotations returns one entry per subsection, on success, on
\* failure and in mock mode; entry k is the annotation given for
\* subsection_index k, empty if none was given (an item with an index out of
\* range is ignored); the subsection at position k in section order is
\* persisted with entry k.
C35_AnnotationsByPosition ==
    /\ pc = "annotate" =>
          LET total == Len(SubsectionsOf(outline))
          IN /\ Len(write_annotations_mock(total)) = total
             /\ \A a \in AnnotationAttempts(total) :
                   LET r == write_annotations(total, a)
                   IN /\ Len(r) = total
                      /\ \A k \in 1..total :
                            IF a.t = "err" \/ GivenFor(a, k - 1) = {} THEN r[k] = ""
                            ELSE r[k] \in GivenFor(a, k - 1)
    /\ pc \in {"gate", "return"} /\ tally # NoTally =>
          /\ Len(annotations) = Cardinality({x \in subsections : x.run = runs})
          /\ \A x \in {y \in subsections : y.run = runs} : x.annotation = annotations[PositionOf(x)]
C35_Witness ==
    /\ pc = "gate" /\ annotations = <<"", "last">>
    /\ \E x \in subsections : x.id[3] = 2 /\ x.id[4] = 1 /\ x.annotation = "last"

RECURSIVE SumTokens(_, _)
\* The estimated tokens of the paragraphs parts of the list ps.
SumTokens(ps, parts) ==
    IF parts = <<>> THEN 0 ELSE _estimate_tokens(ps[Head(parts)]) + SumTokens(ps, Tail(parts))

\* C36: the chunker puts every paragraph in exactly one chunk, in input
\* order; it closes a chunk exactly when the next paragraph would push the
\* estimated total above ChunkSizeTokens, so a chunk's total is at most
\* ChunkSizeTokens unless it is one oversized paragraph; a chunk's page is
\* the page of its first paragraph.
C36_Chunker ==
    (invoked.fn = "_chunk_paragraphs" /\ invoked.state = "returned") =>
        LET ps == invoked.args
            rows == invoked.ret
        IN /\ Concat([c \in 1..Len(rows) |-> rows[c].text.paras]) = [i \in 1..Len(ps) |-> i]
           /\ \A c \in 1..Len(rows) :
                 /\ rows[c].text.paras # <<>>
                 /\ rows[c].page = ps[rows[c].text.paras[1]].page
                 /\ \/ SumTokens(ps, rows[c].text.paras) <= ChunkSizeTokens
                    \/ /\ Len(rows[c].text.paras) = 1
                       /\ _estimate_tokens(ps[rows[c].text.paras[1]]) > ChunkSizeTokens
                 /\ c < Len(rows) =>
                       SumTokens(ps, rows[c].text.paras)
                         + _estimate_tokens(ps[rows[c + 1].text.paras[1]]) > ChunkSizeTokens
C36_Witness ==
    /\ invoked.fn = "_chunk_paragraphs" /\ invoked.state = "returned"
    /\ Len(invoked.args) = 3 /\ Len(invoked.ret) = 2
    /\ SumTokens(invoked.args, invoked.ret[1].text.paras) = ChunkSizeTokens
    /\ _estimate_tokens(invoked.args[3]) > ChunkSizeTokens

RECURSIVE DecimalValue(_)
\* int(s) for a string of digits.
DecimalValue(s) ==
    IF s = <<>> THEN 0
    ELSE 10 * DecimalValue(SubSeq(s, 1, Len(s) - 1))
         + (CHOOSE d \in 0..9 : Digits[d + 1] = s[Len(s)])

\* C37: chunk i (from 1) has chunk_id "c_" and i zero-padded to width 4 and
\* paragraph_index i; char_end - char_start is the length of its text, the
\* first char_start is 0 and each next one is the previous char_end plus 1:
\* the ids are unique, the spans disjoint and increasing.
C37_ChunkIdsAndSpans ==
    (invoked.fn = "parse_pdf_bytes" /\ invoked.state = "returned") =>
        LET cs == invoked.ret.chunks
            rows == invoked.ret.rows
        IN /\ Len(cs) = Len(rows)
           /\ \A i \in 1..Len(cs) :
                 /\ SubSeq(cs[i].chunk_id, 1, 2) = <<"c", "_">>
                 /\ Len(cs[i].chunk_id) = 2 + ChunkIdWidth
                 /\ DecimalValue(SubSeq(cs[i].chunk_id, 3, Len(cs[i].chunk_id))) = i
                 /\ cs[i].paragraph_index = i
                 /\ cs[i].text = rows[i].text
                 /\ cs[i].char_end - cs[i].char_start = cs[i].text.len
                 /\ cs[i].char_start = IF i = 1 THEN 0 ELSE cs[i - 1].char_end + 1
           /\ \A i, j \in 1..Len(cs) :
                 i < j => cs[i].chunk_id # cs[j].chunk_id /\ cs[i].char_end < cs[j].char_start
C37_Witness ==
    /\ invoked.fn = "parse_pdf_bytes" /\ invoked.state = "returned"
    /\ Len(invoked.ret.chunks) = 3
    /\ invoked.ret.chunks[3].chunk_id = <<"c", "_", "0", "0", "0", "3">>
    /\ invoked.ret.chunks[3].char_start > invoked.ret.chunks[2].char_end

\* The raw type of an item: fact_type, else type, else nothing.
RawTypeOf(item) ==
    IF Truthy(item.fact_type) THEN item.fact_type.v
    ELSE IF Truthy(item.type) THEN item.type.v ELSE <<>>
NonNumeric(x) == x.k \in {"none", "list"} \/ (x.k = "str" /\ ~x.numeric)

\* C38: in non-mock mode extract_facts raises or returns 1 to 8 facts, each
\* with a statement of 8 to 400 characters, a fact_type of the allowed set
\* (the given one lower-cased, claim for any other value) and an importance
\* within [0, 1] (0.5 for a non-numeric value).
C38_ExtractedFacts ==
    (invoked.fn = "extract_facts" /\ invoked.state # "pending") =>
        \/ invoked.state = "raised"
        \/ LET fs == invoked.ret
               given == SelectSeq(invoked.args, IsDict)
           IN /\ Len(fs) >= 1 /\ Len(fs) <= MaxFactsPerCall
              /\ \A i \in 1..Len(fs) :
                    /\ Len(fs[i].statement) >= StatementMinLen
                    /\ Len(fs[i].statement) <= StatementMaxLen
                    /\ fs[i].fact_type \in AllowedTypes
                    /\ fs[i].fact_type = IF LowerAscii(RawTypeOf(given[i])) \in AllowedTypes
                                         THEN LowerAscii(RawTypeOf(given[i])) ELSE ClaimType
                    /\ fs[i].importance >= 0 /\ fs[i].importance <= 100
                    /\ NonNumeric(given[i].importance) => fs[i].importance = 50

\* C39: the DocumentImage rows of a run are created in the input order of
\* the parsed images, whatever the order in which the detect-and-upload tasks
\* completed: the list is fixed by the images and the outcome of each task.
C39_ImageRowsInInputOrder ==
    pc = "formulas" =>
        /\ \A k \in 1..(Len(doc_images) - 1) : doc_images[k].id[3] < doc_images[k + 1].id[3]
        /\ {doc_images[k].id[3] : k \in 1..Len(doc_images)}
             = {i \in 1..Len(images) : imgResults[i].upload_ok}
        /\ \A k \in 1..Len(doc_images) :
              LET i == doc_images[k].id[3]
              IN /\ doc_images[k].storage_key = images[i].image_id
                 /\ doc_images[k].page = images[i].page
                 /\ doc_images[k].image_index = images[i].image_index
                 /\ doc_images[k].latex = imgResults[i].latex
                 /\ doc_images[k].is_formula = (imgResults[i].latex # NoneVal)
        /\ Range(doc_images) \subseteq docImages
C39_Witness ==
    /\ pc = "formulas" /\ Len(doc_images) = 2
    /\ imgResults[2].order = 1 /\ imgResults[1].order = 2
    /\ doc_images[1].storage_key = images[1].image_id

\* C40: the pipeline never deletes a DocumentImage row (stage S8 removes
\* sections and spans only); every run adds one row per image it uploaded,
\* so after k runs that upload n images each the document has k*n rows.
C40_ImageRowsAccumulate ==
    [][/\ docImages \subseteq docImages'
       /\ pc \in {"delete", "insert"} => docImages' = docImages
       /\ (pc = "images" /\ pc' = "formulas") =>
             Cardinality(docImages') = Cardinality(docImages)
                + Cardinality({i \in 1..Len(images) : imgResults[i].upload_ok})
       /\ pc' # "images" => Cardinality(docImages') = Cardinality(blobs')]_vars
C40_Witness ==
    /\ runs = 2 /\ pc = "idle" /\ job.status = "done"
    /\ Cardinality(docImages) = 2 /\ Cardinality(blobs) = 2 /\ sections # {}

====
